---- MODULE Spec2Model ----
(***************************************************************************)
(* Model of the recording server's job registry (Server.py): the two maps  *)
(* services / servicesStopping, the lock servicesLock that guards them,    *)
(* the Prometheus gauge and counter, the request handlers startRecording   *)
(* and stopRecording, the background threads _startRecordingService and    *)
(* _stopRecordingService, and the atexit handler _stopServicesOnExit; and  *)
(* of the validation of a request (_validateRequest, with the lookups of   *)
(* Config.py it makes) that precedes the handlers in handleBackendRequest; *)
(* and of the middleware TrustedProxiesFix, which resolves the address of  *)
(* the client from REMOTE_ADDR and X-Forwarded-For (getRemoteAddress).     *)
(*                                                                         *)
(* The server is threaded (app.run(host, port, threaded=True)): every      *)
(* request is handled by a thread of its own, and every accepted start or  *)
(* stop launches one more thread.  A step of the model is a maximal run of *)
(* statements of one thread that no other thread can observe partially:    *)
(*   - a handler up to its return or, for an accepted stop request, up to  *)
(*     the middle of its "with servicesLock:" block.  Waiting for the lock *)
(*     is the step not being enabled;                                      *)
(*   - the statements of a lock-protected block up to its last statement;  *)
(*     the last statement is a step of its own, which releases the lock;   *)
(*   - the metric updates of a thread outside the lock, a call of          *)
(*     service.start or service.stop.                                      *)
(***************************************************************************)
EXTENDS Integers, Sequences, FiniteSets, TLC

(***************************************************************************)
(* Bounds.                                                                 *)
(***************************************************************************)
\* Number of Service objects that may be constructed in one behaviour.
MaxJobs == 2

Jobs == 1..MaxJobs

\* The (backend, token) pairs requests are sent for: rooms with the same
\* token of two backends.
Pairs == { <<"a", "c">>, <<"b", "c">> }
Backends == { p[1] : p \in Pairs }

\* serviceId = f'{backend}-{token}'
ServiceId(backend, token) == backend \o "-" \o token

ServiceIds == { ServiceId(p[1], p[2]) : p \in Pairs }

\* Thread identities, used as the owner of servicesLock.
NoThread == <<"none", 0>>
StopRequestThread(j) == <<"stopRecording", j>>
StartThread(j) == <<"_startRecordingService", j>>
StopThread(j) == <<"_stopRecordingService", j>>

VARIABLES
    services,                 \* dict serviceId -> Service (job id)
    servicesStopping,         \* dict serviceId -> Service (job id)
    servicesLock,             \* thread that holds the Lock, or NoThread
    metricsRecordingsCurrent, \* gauge, per backend label
    metricsRecordingsTotal,   \* counter, per backend label
    jobs,                     \* the Service objects constructed so far
    spc,                      \* per Service: its start request and thread
    tpc,                      \* per Service: its stop request and thread
    exited,                   \* whether the atexit handler has run
    emitted,                  \* what the step just taken answered and logged
    hist,                     \* history of the behaviour (observations only)
    request,                  \* the HTTP request a client sends, or NoRequest
    validation,               \* what _validateRequest did with the request
    environment,              \* the WSGI environment TrustedProxiesFix gets
    trustedProxies,           \* Config._trustedProxies
    proxiesFix,               \* what TrustedProxiesFix.__call__ has done
    configParser,             \* Config._configParser
    backendIdsByBackendUrl,   \* Config._backendIdsByBackendUrl
    signalingIdsBySignalingUrl, \* Config._signalingIdsBySignalingUrl
    statsAllowedIps,          \* Config._statsAllowedIps
    configCall,               \* the last call of a method of the Config
    protectedMetrics          \* what ProtectedMetrics.__call__ has done

vars == << services, servicesStopping, servicesLock,
           metricsRecordingsCurrent, metricsRecordingsTotal, jobs,
           spc, tpc, exited, emitted, hist, request, validation,
           environment, trustedProxies, proxiesFix, configParser,
           backendIdsByBackendUrl, signalingIdsBySignalingUrl,
           statsAllowedIps, configCall, protectedMetrics >>

\* The fields of the Config that only Config.load assigns, and the record
\* of the calls of its methods.
configVars == << configParser, backendIdsByBackendUrl,
                signalingIdsBySignalingUrl, statsAllowedIps, configCall >>

(***************************************************************************)
(* Dictionaries.                                                           *)
(***************************************************************************)
EmptyDict == [ k \in {} |-> 0 ]

\* dict[key] = value
DictSet(dict, key, value) ==
    [ k \in DOMAIN dict \cup {key} |-> IF k = key THEN value ELSE dict[k] ]

\* Variant of dict.pop(key) that leaves the key in the dict.
DictPop_KeepsKey(dict, key) == dict

\* dict.pop(key), for a key that is present
DictPop(dict, key) == [ k \in DOMAIN dict \ {key} |-> dict[k] ]

(***************************************************************************)
(* What a step shows to the outside: the request it received (type,        *)
(* backend and token, "" when the step receives none), the Service it      *)
(* works on (0: none), the HTTP status it answers (0: no answer in this    *)
(* step) and the message it logs ("": none).                               *)
(***************************************************************************)
Nothing == [ status |-> 0, log |-> "", type |-> "", backend |-> "",
             token |-> "", service |-> 0 ]

\* A handler receives a request and answers it in the same step.
Answer(status, log, type, backend, token, j) ==
    [ status |-> status, log |-> log, type |-> type, backend |-> backend,
      token |-> token, service |-> j ]

\* A handler receives a request and goes on with Service j.
Accepted(type, backend, token, j) ==
    [ status |-> 0, log |-> "", type |-> type, backend |-> backend,
      token |-> token, service |-> j ]

\* A handler answers the request it received in an earlier step.
Returned(status, log, type, j) ==
    [ status |-> status, log |-> log, type |-> type, backend |-> "",
      token |-> "", service |-> j ]

\* A background thread logs a message about its Service.
Logged(log, j) ==
    [ status |-> 0, log |-> log, type |-> "", backend |-> "", token |-> "",
      service |-> j ]

JobServiceId(j) == ServiceId(jobs[j].backend, jobs[j].token)

(***************************************************************************)
(* The configuration (Config.py), as loaded from a file with the sections  *)
(*   [backend]    backends = backend-1, backend-2, backend-3               *)
(*   [backend-1]  url = a    secret = sa                                   *)
(*   [backend-2]  url = b/   secret = sb   maxmessagesize = 512            *)
(*   [backend-3]  url = e    secret =                                      *)
(***************************************************************************)
\* Python's None where a string is expected.
None == "None"

\* The file the server runs with in the specifications of the registry, of
\* the requests and of the address resolution.
serverConf ==
    ("backend" :> ("backends" :> "backend-1, backend-2, backend-3"))
    @@ ("backend-1" :> (("url" :> "a") @@ ("secret" :> "sa")))
    @@ ("backend-2" :> (("url" :> "b/") @@ ("secret" :> "sb")
                        @@ ("maxmessagesize" :> "512")))
    @@ ("backend-3" :> (("url" :> "e") @@ ("secret" :> "")))

\* self._configParser.get(section, option, fallback=fallback)
configParserGet(section, option, fallback) ==
    IF section \in DOMAIN configParser
       /\ option \in DOMAIN configParser[section]
    THEN configParser[section][option]
    ELSE fallback

\* backendUrl.rstrip('/'), for the URLs of the model.
rstripSlash(backendUrl) ==
    CASE backendUrl = "a/" -> "a"
      [] backendUrl = "b/" -> "b"
      [] backendUrl = "s/" -> "s"
      [] OTHER -> backendUrl

\* Python's truth value of a string or None.
Truthy(value) == value \notin { None, "" }

\* What stands for "raise NoOptionError" where a string is expected:
\* self._configParser.get(section, option), without a fallback, of an option
\* that the section does not have.
NoOptionError == "NoOptionError"

\* Variant of getBackendSecret that falls back to the common secret for a
\* URL of no backend.
getBackendSecret_CommonFallback(backendUrl) ==
    IF configParserGet("backend", "allowall", None) = "true"
    THEN configParserGet("backend", "secret", NoOptionError)
    ELSE IF rstripSlash(backendUrl) \in DOMAIN backendIdsByBackendUrl
    THEN configParserGet(backendIdsByBackendUrl[rstripSlash(backendUrl)],
                         "secret", None)
    ELSE configParserGet("backend", "secret", None)

\* Config.getBackendSecret
getBackendSecret(backendUrl) ==
    IF configParserGet("backend", "allowall", None) = "true"
    THEN configParserGet("backend", "secret", NoOptionError)
    ELSE IF rstripSlash(backendUrl) \in DOMAIN backendIdsByBackendUrl
    THEN configParserGet(backendIdsByBackendUrl[rstripSlash(backendUrl)],
                         "secret", None)
    ELSE None

\* Variant of _getBackendValue that prefers the value of [backend] to the
\* value of the section of the backend.
getBackendValue_GlobalFirst(backendUrl, key, default) ==
    IF /\ "backend" \in DOMAIN configParser
       /\ key \in DOMAIN configParser["backend"]
    THEN configParser["backend"][key]
    ELSE IF /\ rstripSlash(backendUrl) \in DOMAIN backendIdsByBackendUrl
            /\ Truthy(configParserGet(
                          backendIdsByBackendUrl[rstripSlash(backendUrl)],
                          key, None))
    THEN configParserGet(backendIdsByBackendUrl[rstripSlash(backendUrl)],
                         key, None)
    ELSE default

\* Config._getBackendValue
getBackendValue(backendUrl, key, default) ==
    IF /\ rstripSlash(backendUrl) \in DOMAIN backendIdsByBackendUrl
       /\ Truthy(configParserGet(
                     backendIdsByBackendUrl[rstripSlash(backendUrl)], key,
                     None))
    THEN configParserGet(backendIdsByBackendUrl[rstripSlash(backendUrl)],
                         key, None)
    ELSE configParserGet("backend", key, default)

\* int(), for the decimal numerals of the model.
int(numeral) ==
    CASE numeral = "512" -> 512 [] numeral = "1024" -> 1024
      [] numeral = "2048" -> 2048 [] numeral = "4096" -> 4096
      [] numeral = "1920" -> 1920 [] numeral = "1080" -> 1080
      [] numeral = "1280" -> 1280 [] numeral = "720" -> 720
      [] numeral = "960" -> 960 [] numeral = "540" -> 540
      [] numeral = "640" -> 640 [] numeral = "480" -> 480

\* Config.getBackendMaximumMessageSize; the default is the number 1024 in
\* the code, written as a numeral here.
getBackendMaximumMessageSize(backendUrl) ==
    int(getBackendValue(backendUrl, "maxmessagesize", "1024"))

\* Config.getBackendSkipVerify; the default is the value False in the code,
\* which is not equal to 'true'.
getBackendSkipVerify(backendUrl) ==
    getBackendValue(backendUrl, "skipverify", "False") = "true"

\* Config.getBackendVideoWidth, with the default written as a numeral.
getBackendVideoWidth(backendUrl) ==
    int(getBackendValue(backendUrl, "videowidth", "1920"))

\* Config.getBackendVideoHeight, with the default written as a numeral.
getBackendVideoHeight(backendUrl) ==
    int(getBackendValue(backendUrl, "videoheight", "1080"))

\* Config.getBackendDirectory
getBackendDirectory(backendUrl) ==
    getBackendValue(backendUrl, "directory", "/tmp")

\* Config.getSignalingSecret
getSignalingSecret(signalingUrl) ==
    IF /\ rstripSlash(signalingUrl) \in DOMAIN signalingIdsBySignalingUrl
       /\ Truthy(configParserGet(
                     signalingIdsBySignalingUrl[rstripSlash(signalingUrl)],
                     "internalsecret", None))
    THEN configParserGet(
             signalingIdsBySignalingUrl[rstripSlash(signalingUrl)],
             "internalsecret", None)
    ELSE configParserGet("signaling", "internalsecret", None)

(***************************************************************************)
(* HTTP requests to /api/v1/room/<token>.                                   *)
(***************************************************************************)
HeaderNames == { "Talk-Recording-Backend", "Talk-Recording-Random",
                 "Talk-Recording-Checksum" }

\* request.content_length of a request without a Content-Length header.
NoContentLength == -1

\* The headers of a request; None stands for a header that is not sent.
Headers(backend, random, checksum) ==
    LET value == ("Talk-Recording-Backend" :> backend)
                 @@ ("Talk-Recording-Random" :> random)
                 @@ ("Talk-Recording-Checksum" :> checksum)
    IN  [ name \in { n \in HeaderNames : value[n] # None } |-> value[name] ]

\* A request: the token of its URL, its Talk-Recording headers, the length
\* it declares and its body.
Request(token, backend, random, checksum, content_length, body) ==
    [ token |-> token,
      headers |-> Headers(backend, random, checksum),
      content_length |-> content_length,
      body |-> body ]

\* No request is being sent.
NoRequest == Request("", None, None, None, NoContentLength, "")

\* json.loads of the JSON number 5: a Python int, a value that is not a
\* container ("'key' in 5" raises TypeError).  It is written as a record
\* that no JSON object of the model is equal to.
jsonNumber == [ int |-> 5 ]

\* The bodies of the model, and json.loads of each; json.loads raises
\* JSONDecodeError for a body that is not in the table.
jsonTable ==
    ("{\"type\":\"start\",\"start\":{\"owner\":\"o\",\"actor\":{\"type\":\"users\",\"id\":\"u\"}}}"
       :> (("type" :> "start")
           @@ ("start" :> (("owner" :> "o")
                           @@ ("actor" :> (("type" :> "users")
                                           @@ ("id" :> "u")))))))
    @@ ("{\"type\":\"stop\",\"stop\":{}}"
       :> (("type" :> "stop") @@ ("stop" :> EmptyDict)))
    @@ ("{\"type\":\"start\",\"start\":{\"owner\":\"o\"}}"
       :> (("type" :> "start") @@ ("start" :> ("owner" :> "o"))))
    @@ ("{\"type\":\"start\",\"start\":{\"actor\":{\"type\":\"users\",\"id\":\"u\"}}}"
       :> (("type" :> "start")
           @@ ("start" :> ("actor" :> (("type" :> "users")
                                       @@ ("id" :> "u"))))))
    @@ ("{\"type\":\"start\",\"start\":{\"owner\":\"o\",\"actor\":{\"id\":\"u\"}}}"
       :> (("type" :> "start")
           @@ ("start" :> (("owner" :> "o")
                           @@ ("actor" :> ("id" :> "u"))))))
    @@ ("{\"type\":\"start\",\"start\":{\"owner\":\"o\",\"actor\":{\"type\":\"users\"}}}"
       :> (("type" :> "start")
           @@ ("start" :> (("owner" :> "o")
                           @@ ("actor" :> ("type" :> "users"))))))
    @@ ("{\"type\":\"start\"}" :> ("type" :> "start"))
    @@ ("{\"type\":\"stop\"}" :> ("type" :> "stop"))
    @@ ("{\"type\":\"pause\"}" :> ("type" :> "pause"))
    @@ ("{}" :> EmptyDict)
    @@ ("5" :> jsonNumber)
    @@ ("{\"type\":\"start\",\"start\":5}"
       :> (("type" :> "start") @@ ("start" :> jsonNumber)))
    @@ ("{\"type\":\"start\",\"start\":{\"owner\":\"o\",\"actor\":5}}"
       :> (("type" :> "start")
           @@ ("start" :> (("owner" :> "o") @@ ("actor" :> jsonNumber)))))
    @@ ("{\"type\":\"stop\",\"stop\":5}"
       :> (("type" :> "stop") @@ ("stop" :> jsonNumber)))

\* A body that is not JSON.
NotJson == "{\"type\":"

Bodies == DOMAIN jsonTable \cup { NotJson }

\* Variant of _calculateChecksum that leaves the random out of the message.
calculateChecksum_BodyOnly(secret, random, body) ==
    "hmac-sha256(" \o secret \o "," \o body \o ")"

\* _calculateChecksum: the hexadecimal digest of the HMAC-SHA256, keyed by
\* the secret, of the random followed by the body.  The digest is a
\* function of the key and of the message, taken to be free of collisions.
calculateChecksum(secret, random, body) ==
    "hmac-sha256(" \o secret \o "," \o (random \o body) \o ")"

(***************************************************************************)
(* _validateRequest.  The outcome: the exception raised (status and logged  *)
(* message) or the values returned (status 200, backend, data), and        *)
(* whether request.get_data() was called.                                  *)
(***************************************************************************)
NotValidated == [ status |-> 0, log |-> "", bodyRead |-> FALSE,
                  backend |-> "", data |-> EmptyDict ]

\* raise Forbidden() / raise BadRequest() / an exception of json.loads
Raises(status, log, bodyRead) ==
    [ status |-> status, log |-> log, bodyRead |-> bodyRead,
      backend |-> "", data |-> EmptyDict ]

\* return backend, json.loads(body)
Returns(backend, data) ==
    [ status |-> 200, log |-> "", bodyRead |-> TRUE,
      backend |-> backend, data |-> data ]

\* Line 267, json.loads(body): a JSONDecodeError is not an HTTPException,
\* it is answered 500 Internal Server Error.
validateRequestJson(r) ==
    IF r.body \in DOMAIN jsonTable
    THEN Returns(r.headers["Talk-Recording-Backend"], jsonTable[r.body])
    ELSE Raises(500, "JSONDecodeError", TRUE)

\* A value of the Talk-Recording-Checksum header with a character that is
\* not ASCII (a byte above 0x7f of the header, decoded as Latin-1).
NonAsciiChecksum == "\\xe9"

\* Whether a string has only ASCII characters, for the strings of the model.
isAscii(string) == string # NonAsciiChecksum

\* Lines 260-265: the body is read and the checksum of the header compared
\* with the expected one by hmac.compare_digest, which raises TypeError for
\* a string that is not ASCII; a TypeError is answered 500 Internal Server
\* Error.
validateRequestChecksum(r) ==
    IF ~isAscii(r.headers["Talk-Recording-Checksum"])
    THEN Raises(500, "TypeError", TRUE)
    ELSE IF r.headers["Talk-Recording-Checksum"]
              # calculateChecksum(
                    getBackendSecret(r.headers["Talk-Recording-Backend"]),
                    r.headers["Talk-Recording-Random"], r.body)
    THEN Raises(403, "Checksum verification failed", TRUE)
    ELSE validateRequestJson(r)

\* Variant of lines 254-258 that also rejects a length equal to the maximum.
validateRequestSize_Exclusive(r) ==
    IF \/ r.content_length \in { NoContentLength, 0 }
       \/ r.content_length
            >= getBackendMaximumMessageSize(r.headers["Talk-Recording-Backend"])
    THEN Raises(400, "Message size above limit", FALSE)
    ELSE validateRequestChecksum(r)

\* Lines 254-258.
validateRequestSize(r) ==
    IF \/ r.content_length \in { NoContentLength, 0 }
       \/ r.content_length
            > getBackendMaximumMessageSize(r.headers["Talk-Recording-Backend"])
    THEN Raises(400, "Message size above limit", FALSE)
    ELSE validateRequestChecksum(r)

\* Lines 248-252.
validateRequestChecksumHeader(r) ==
    IF "Talk-Recording-Checksum" \notin DOMAIN r.headers
    THEN Raises(403, "Missing Talk-Recording-Checksum header", FALSE)
    ELSE validateRequestSize(r)

\* Lines 242-246.
validateRequestRandomHeader(r) ==
    IF "Talk-Recording-Random" \notin DOMAIN r.headers
    THEN Raises(403, "Missing Talk-Recording-Random header", FALSE)
    ELSE validateRequestChecksumHeader(r)

\* Variant of lines 237-240 that only rejects a backend without secret
\* entry, not one with an empty secret.
validateRequestSecret_NoneOnly(r) ==
    IF getBackendSecret(r.headers["Talk-Recording-Backend"]) = None
    THEN Raises(403, "No secret configured for backend", FALSE)
    ELSE validateRequestRandomHeader(r)

\* Lines 235-240; an exception of config.getBackendSecret is no
\* HTTPException, it is answered 500 Internal Server Error.
validateRequestSecret(r) ==
    IF getBackendSecret(r.headers["Talk-Recording-Backend"]) = NoOptionError
    THEN Raises(500, "NoOptionError", FALSE)
    ELSE IF ~Truthy(getBackendSecret(r.headers["Talk-Recording-Backend"]))
    THEN Raises(403, "No secret configured for backend", FALSE)
    ELSE validateRequestRandomHeader(r)

\* Lines 231-267.
validateRequest(r) ==
    IF "Talk-Recording-Backend" \notin DOMAIN r.headers
    THEN Raises(403, "Missing Talk-Recording-Backend header", FALSE)
    ELSE validateRequestSecret(r)

(***************************************************************************)
(* Texts.  A text (a Python str) of the address resolution is the sequence *)
(* of its characters, so that the operations on it are computed as the     *)
(* code computes them.  Indices start at 1.                                *)
(***************************************************************************)
\* text.count(char)
count(text, char) == Cardinality({ i \in DOMAIN text : text[i] = char })

\* text.find(char), for a text that has the character: its first index.
find(text, char) ==
    CHOOSE i \in DOMAIN text :
        text[i] = char /\ \A k \in 1..(i - 1) : text[k] # char

\* text.rfind(char), for a text that has the character: its last index.
rfind(text, char) ==
    CHOOSE i \in DOMAIN text :
        text[i] = char /\ \A k \in (i + 1)..Len(text) : text[k] # char

\* The characters that str.strip() removes, among those of the model.
Whitespace == { " " }

\* text.strip()
strip(text) ==
    LET kept == { i \in DOMAIN text : text[i] \notin Whitespace }
    IN  IF kept = {} THEN << >>
        ELSE SubSeq(text,
                    CHOOSE i \in kept : \A k \in kept : i <= k,
                    CHOOSE i \in kept : \A k \in kept : i >= k)

RECURSIVE split(_, _)
\* text.split(sep): the list of the texts between the separators.
split(text, sep) ==
    IF count(text, sep) = 0 THEN << text >>
    ELSE << SubSeq(text, 1, find(text, sep) - 1) >>
         \o split(SubSeq(text, find(text, sep) + 1, Len(text)), sep)

\* list.reverse()
reverse(list) == [ i \in 1..Len(list) |-> list[Len(list) + 1 - i] ]

(***************************************************************************)
(* IP addresses and networks (module ipaddress).  An address is its        *)
(* version and its groups: the four octets of an IPv4Address, the eight    *)
(* 16 bit groups of an IPv6Address.  A network is its version, its network *)
(* address and its prefix length, a multiple of the width of a group.      *)
(***************************************************************************)
IPv4Address(a, b, c, d) == [ version |-> 4, packed |-> << a, b, c, d >> ]

IPv6Address(a, h) ==
    [ version |-> 6, packed |-> << a, 0, 0, 0, 0, 0, 0, h >> ]

\* ip_network: IPv4Network / IPv6Network
Network(network_address, prefixlen) ==
    [ version |-> network_address.version,
      network_address |-> network_address, prefixlen |-> prefixlen ]

\* What stands for "raise ValueError" where an address is expected.
NotAnAddress == [ version |-> 0, packed |-> << >> ]

\* The texts that ip_address() takes for an address, among those of the
\* model, and the address of each.
ipAddressTable ==
    (<< "1", "0", ".", "0", ".", "0", ".", "1" >> :> IPv4Address(10, 0, 0, 1))
    @@ (<< "1", "0", ".", "0", ".", "0", ".", "2" >> :> IPv4Address(10, 0, 0, 2))
    @@ (<< "4", ".", "4", ".", "4", ".", "4" >> :> IPv4Address(4, 4, 4, 4))
    @@ (<< "a", ":", ":", "1" >> :> IPv6Address(10, 1))
    @@ (<< "a", ":", "0", ":", ":", "1" >> :> IPv6Address(10, 1))
    @@ (<< "b", ":", ":", "1" >> :> IPv6Address(11, 1))
    @@ (<< "b", ":", "0", ":", ":", "1" >> :> IPv6Address(11, 1))

\* ip_address(text); ValueError for a text that is no address.
ip_address(text) ==
    IF text \in DOMAIN ipAddressTable THEN ipAddressTable[text]
    ELSE NotAnAddress

\* address.compressed, for the addresses of the model.
compressed(address) ==
    CASE address = IPv4Address(10, 0, 0, 1) -> << "1", "0", ".", "0", ".", "0", ".", "1" >>
      [] address = IPv4Address(10, 0, 0, 2) -> << "1", "0", ".", "0", ".", "0", ".", "2" >>
      [] address = IPv4Address(4, 4, 4, 4) -> << "4", ".", "4", ".", "4", ".", "4" >>
      [] address = IPv6Address(10, 1) -> << "a", ":", ":", "1" >>
      [] address = IPv6Address(11, 1) -> << "b", ":", ":", "1" >>

\* The bits of a group of an address of the version.
GroupBits(version) == IF version = 4 THEN 8 ELSE 16

\* "address in network": an address of another version is never in it.
inNetwork(address, network) ==
    /\ address.version = network.version
    /\ \A i \in 1..(network.prefixlen \div GroupBits(network.version)) :
         address.packed[i] = network.network_address.packed[i]

\* isAddressInNetworks
isAddressInNetworks(address, networks) ==
    \E i \in DOMAIN networks : inNetwork(address, networks[i])

(***************************************************************************)
(* Config.load.  The file is the ConfigParser that reading it gives: a     *)
(* dict of its sections, each a dict of its options.  The values of        *)
(* 'trustedproxies' and 'allowed_ips' are texts; the values of 'backends'  *)
(* and 'signalings' are strings, as the names of the sections are.         *)
(***************************************************************************)
\* What stands for "raise ValueError" where a network is expected.
NotANetwork ==
    [ version |-> 0, network_address |-> NotAnAddress, prefixlen |-> 0 ]

\* The texts that ip_network() takes for a network, among those of the
\* model, and the network of each.  A text with host bits set is none.
ipNetworkTable ==
    (<< "1", "0", ".", "0", ".", "0", ".", "0", "/", "8" >> :> Network(IPv4Address(10, 0, 0, 0), 8))
    @@ (<< "1", "0", ".", "0", ".", "0", ".", "1" >> :> Network(IPv4Address(10, 0, 0, 1), 32))
    @@ (<< "4", ".", "4", ".", "4", ".", "4" >> :> Network(IPv4Address(4, 4, 4, 4), 32))
    @@ (<< "1", "2", "7", ".", "0", ".", "0", ".", "1" >> :> Network(IPv4Address(127, 0, 0, 1), 32))
    @@ (<< "a", ":", ":", "/", "1", "6" >> :> Network(IPv6Address(10, 0), 16))

\* ip_network(text); ValueError for a text that is no network.
ip_network(text) ==
    IF text \in DOMAIN ipNetworkTable THEN ipNetworkTable[text]
    ELSE NotANetwork

\* 'section' in parser and 'option' in parser[section]
hasOption(parser, section, option) ==
    section \in DOMAIN parser /\ option \in DOMAIN parser[section]

\* [entry.strip() for entry in value.split(',')]
splitAndStrip(value) ==
    [ i \in DOMAIN split(value, ",") |-> strip(split(value, ",")[i]) ]

RECURSIVE loadTrustedProxiesLoop_StopsAtInvalid(_)
\* Variant of lines 73-79 that gives up the list at the first entry that is
\* no network.
loadTrustedProxiesLoop_StopsAtInvalid(proxies) ==
    IF proxies = << >> THEN << >>
    ELSE IF ip_network(Head(proxies)) = NotANetwork THEN << >>
    ELSE << ip_network(Head(proxies)) >>
         \o loadTrustedProxiesLoop_StopsAtInvalid(Tail(proxies))

RECURSIVE loadTrustedProxiesLoop(_)
\* Lines 73-79: the proxies that are networks, in the order of the list.
loadTrustedProxiesLoop(proxies) ==
    IF proxies = << >> THEN << >>
    ELSE IF ip_network(Head(proxies)) = NotANetwork
    THEN loadTrustedProxiesLoop(Tail(proxies))
    ELSE << ip_network(Head(proxies)) >>
         \o loadTrustedProxiesLoop(Tail(proxies))

\* Config._loadTrustedProxies: the value of self._trustedProxies after it.
loadTrustedProxies(parser) ==
    IF ~hasOption(parser, "app", "trustedproxies") THEN << >>
    ELSE loadTrustedProxiesLoop(
             splitAndStrip(parser["app"]["trustedproxies"]))

RECURSIVE loadStatsAllowedIpsLoop(_)
\* Lines 144-150: the allowed IPs that are networks, in the order of the
\* list.
loadStatsAllowedIpsLoop(allowedIps) ==
    IF allowedIps = << >> THEN << >>
    ELSE IF ip_network(Head(allowedIps)) = NotANetwork
    THEN loadStatsAllowedIpsLoop(Tail(allowedIps))
    ELSE << ip_network(Head(allowedIps)) >>
         \o loadStatsAllowedIpsLoop(Tail(allowedIps))

\* Config._loadStatsAllowedIps: the value of self._statsAllowedIps after it.
loadStatsAllowedIps(parser) ==
    IF ~hasOption(parser, "stats", "allowed_ips")
    THEN << ip_network(<< "1", "2", "7", ".", "0", ".", "0", ".", "1" >>) >>
    ELSE loadStatsAllowedIpsLoop(
             splitAndStrip(parser["stats"]["allowed_ips"]))

\* [id.strip() for id in value.split(',')], for the lists of sections of
\* the model.
sectionIds(value) ==
    CASE value = "backend-1, backend-2, backend-3" ->
             << "backend-1", "backend-2", "backend-3" >>
      [] value = "backend-1,backend-2" -> << "backend-1", "backend-2" >>
      [] value = "signaling-1" -> << "signaling-1" >>

RECURSIVE loadBackendsLoop(_, _, _)
\* Lines 92-103: the backends that have a url and a secret, by their url
\* without trailing slashes.
loadBackendsLoop(parser, backendIds, loaded) ==
    IF backendIds = << >> THEN loaded
    ELSE IF \/ "url" \notin DOMAIN parser[Head(backendIds)]
            \/ "secret" \notin DOMAIN parser[Head(backendIds)]
    THEN loadBackendsLoop(parser, Tail(backendIds), loaded)
    ELSE loadBackendsLoop(
             parser, Tail(backendIds),
             DictSet(loaded, rstripSlash(parser[Head(backendIds)]["url"]),
                     Head(backendIds)))

\* Config._loadBackends: the value of self._backendIdsByBackendUrl after
\* it.
loadBackends(parser) ==
    IF ~hasOption(parser, "backend", "backends") THEN EmptyDict
    ELSE loadBackendsLoop(parser, sectionIds(parser["backend"]["backends"]),
                          EmptyDict)

RECURSIVE loadSignalingsLoop(_, _, _)
\* Lines 120-131: the signalings that have a url and an internalsecret, by
\* their url without trailing slashes.
loadSignalingsLoop(parser, signalingIds, loaded) ==
    IF signalingIds = << >> THEN loaded
    ELSE IF \/ "url" \notin DOMAIN parser[Head(signalingIds)]
            \/ "internalsecret" \notin DOMAIN parser[Head(signalingIds)]
    THEN loadSignalingsLoop(parser, Tail(signalingIds), loaded)
    ELSE loadSignalingsLoop(
             parser, Tail(signalingIds),
             DictSet(loaded,
                     rstripSlash(parser[Head(signalingIds)]["url"]),
                     Head(signalingIds)))

\* Config._loadSignalings: the value of self._signalingIdsBySignalingUrl
\* after it.
loadSignalings(parser) ==
    IF ~hasOption(parser, "signaling", "signalings") THEN EmptyDict
    ELSE loadSignalingsLoop(
             parser, sectionIds(parser["signaling"]["signalings"]),
             EmptyDict)

\* No method of the Config was called since Config.load.
Loaded == [ pc |-> "loaded", getter |-> "", url |-> "", value |-> "" ]

\* The Config after config.load(file), but for self._trustedProxies.
ConfigLoaded(file) ==
    /\ configParser = file
    /\ backendIdsByBackendUrl = loadBackends(file)
    /\ signalingIdsBySignalingUrl = loadSignalings(file)
    /\ statsAllowedIps = loadStatsAllowedIps(file)
    /\ configCall = Loaded

\* ProtectedMetrics.__call__ was not called.
MetricsNotCalled ==
    [ pc |-> "idle", status |-> 0, body |-> "", metricsCalled |-> FALSE ]

(***************************************************************************)
(* TrustedProxiesFix.getRemoteAddress, on a WSGI environment: a dict with  *)
(* REMOTE_ADDR and HTTP_X_FORWARDED_FOR, when they are set.                *)
(***************************************************************************)
\* re.match('\\[(.*)\\]', address): the text starts with "[" and has a "]"
\* after it.
addressInBracketsMatch(address) ==
    /\ address # << >>
    /\ address[1] = "["
    /\ \E i \in 2..Len(address) : address[i] = "]"

\* addressInBracketsMatch.group(1): ".*" is greedy, the group ends before
\* the last "]" of the text.
addressInBracketsGroup(address) ==
    SubSeq(address, 2, rfind(address, "]") - 1)

\* Variant of _getAddressWithoutPort that keeps the port of an IPv4 address.
getAddressWithoutPort_KeepsPort(address) ==
    IF count(address, ":") > 1 /\ addressInBracketsMatch(address)
    THEN addressInBracketsGroup(address)
    ELSE address

\* TrustedProxiesFix._getAddressWithoutPort
getAddressWithoutPort(address) ==
    IF count(address, ":") > 1
    THEN IF addressInBracketsMatch(address)
         THEN addressInBracketsGroup(address)
         ELSE address
    ELSE IF count(address, ":") = 1
    THEN SubSeq(address, 1, find(address, ":") - 1)
    ELSE address

\* What stands for "raise ValueError" where a text is returned: a sequence
\* that is the characters of no text.
ValueError == << "ValueError" >>

RECURSIVE getRemoteAddressLoop_KeepsCandidate(_, _, _)
\* Variant of lines 120-132 that does not update the candidate address.
getRemoteAddressLoop_KeepsCandidate(forwardedFor, candidateAddress, trusted) ==
    IF forwardedFor = << >> THEN candidateAddress
    ELSE LET forwarded ==
                 ip_address(getAddressWithoutPort(Head(forwardedFor)))
         IN  IF forwarded = NotAnAddress THEN candidateAddress
             ELSE IF ~isAddressInNetworks(forwarded, trusted)
             THEN compressed(forwarded)
             ELSE getRemoteAddressLoop_KeepsCandidate(
                      Tail(forwardedFor), candidateAddress, trusted)

RECURSIVE getRemoteAddressLoop_SkipsInvalid(_, _, _)
\* Variant of lines 120-132 that goes on after an entry that is no address.
getRemoteAddressLoop_SkipsInvalid(forwardedFor, candidateAddress, trusted) ==
    IF forwardedFor = << >> THEN candidateAddress
    ELSE LET forwarded ==
                 ip_address(getAddressWithoutPort(Head(forwardedFor)))
         IN  IF forwarded = NotAnAddress
             THEN getRemoteAddressLoop_SkipsInvalid(
                      Tail(forwardedFor), candidateAddress, trusted)
             ELSE IF ~isAddressInNetworks(forwarded, trusted)
             THEN compressed(forwarded)
             ELSE getRemoteAddressLoop_SkipsInvalid(
                      Tail(forwardedFor), compressed(forwarded), trusted)

RECURSIVE getRemoteAddressLoop(_, _, _)
\* Lines 120-132: the loop over the reversed entries of the header.
getRemoteAddressLoop(forwardedFor, candidateAddress, trusted) ==
    IF forwardedFor = << >> THEN candidateAddress
    ELSE LET forwarded ==
                 ip_address(getAddressWithoutPort(Head(forwardedFor)))
         IN  IF forwarded = NotAnAddress THEN candidateAddress
             ELSE IF ~isAddressInNetworks(forwarded, trusted)
             THEN compressed(forwarded)
             ELSE getRemoteAddressLoop(Tail(forwardedFor),
                                       compressed(forwarded), trusted)

\* Variant of getRemoteAddress without the test of line 111: the header is
\* used whoever the peer is.
getRemoteAddress_TrustsPeer(environ, trusted) ==
    IF "REMOTE_ADDR" \notin DOMAIN environ THEN ValueError
    ELSE LET remoteAddress ==
                 ip_address(getAddressWithoutPort(environ["REMOTE_ADDR"]))
         IN  IF remoteAddress = NotAnAddress THEN ValueError
             ELSE IF "HTTP_X_FORWARDED_FOR" \notin DOMAIN environ
             THEN environ["REMOTE_ADDR"]
             ELSE getRemoteAddressLoop(
                      reverse([ i \in DOMAIN split(
                                    environ["HTTP_X_FORWARDED_FOR"], ",") |->
                                  strip(split(environ["HTTP_X_FORWARDED_FOR"],
                                              ",")[i]) ]),
                      compressed(remoteAddress), trusted)

\* Variant of getRemoteAddress that returns REMOTE_ADDR as it is, without
\* parsing it, when there is no header.
getRemoteAddress_ParsesLate(environ, trusted) ==
    IF "REMOTE_ADDR" \notin DOMAIN environ THEN ValueError
    ELSE IF "HTTP_X_FORWARDED_FOR" \notin DOMAIN environ
    THEN environ["REMOTE_ADDR"]
    ELSE LET remoteAddress ==
                 ip_address(getAddressWithoutPort(environ["REMOTE_ADDR"]))
         IN  IF remoteAddress = NotAnAddress THEN ValueError
             ELSE IF ~isAddressInNetworks(remoteAddress, trusted)
             THEN environ["REMOTE_ADDR"]
             ELSE getRemoteAddressLoop(
                      reverse([ i \in DOMAIN split(
                                    environ["HTTP_X_FORWARDED_FOR"], ",") |->
                                  strip(split(environ["HTTP_X_FORWARDED_FOR"],
                                              ",")[i]) ]),
                      compressed(remoteAddress), trusted)

\* TrustedProxiesFix.getRemoteAddress, lines 99-132; trusted is
\* self._config.getTrustedProxies().
getRemoteAddress(environ, trusted) ==
    IF "REMOTE_ADDR" \notin DOMAIN environ THEN ValueError
    ELSE LET remoteAddress ==
                 ip_address(getAddressWithoutPort(environ["REMOTE_ADDR"]))
         IN  IF remoteAddress = NotAnAddress THEN ValueError
             ELSE IF "HTTP_X_FORWARDED_FOR" \notin DOMAIN environ
             THEN environ["REMOTE_ADDR"]
             ELSE IF ~isAddressInNetworks(remoteAddress, trusted)
             THEN environ["REMOTE_ADDR"]
             ELSE getRemoteAddressLoop(
                      reverse([ i \in DOMAIN split(
                                    environ["HTTP_X_FORWARDED_FOR"], ",") |->
                                  strip(split(environ["HTTP_X_FORWARDED_FOR"],
                                              ",")[i]) ]),
                      compressed(remoteAddress), trusted)

\* What TrustedProxiesFix.__call__ has done: whether it is idle, was called
\* ("call") or has called the wrapped application ("app"), the environment
\* it received, and what it logged.  No request was received:
NotCalled == [ pc |-> "idle", received |-> EmptyDict, log |-> "" ]

\* TrustedProxiesFix.__call__, lines 66-71: REMOTE_ADDR is set to the
\* address that getRemoteAddress returns, or the ValueError is logged; then
\* the wrapped application is called with the environment.
TrustedProxiesFixCall ==
    /\ proxiesFix.pc = "call"
    /\ environment'
         = IF getRemoteAddress(environment, trustedProxies) = ValueError
           THEN environment
           ELSE DictSet(environment, "REMOTE_ADDR",
                        getRemoteAddress(environment, trustedProxies))
    /\ proxiesFix'
         = [ proxiesFix EXCEPT
               !.pc = "app",
               !.log = IF getRemoteAddress(environment, trustedProxies)
                          = ValueError
                       THEN "The remote address of the request could not be got"
                       ELSE "" ]
    /\ UNCHANGED << services, servicesStopping, servicesLock,
                    metricsRecordingsCurrent, metricsRecordingsTotal, jobs,
                    spc, tpc, exited, emitted, hist, request, validation,
                    trustedProxies,
                    configVars, protectedMetrics >>

(***************************************************************************)
(* Initial state: the module has been imported, no request was received.   *)
(***************************************************************************)
Init ==
    /\ ConfigLoaded(serverConf)
    /\ services = EmptyDict
    /\ servicesStopping = EmptyDict
    /\ servicesLock = NoThread
    /\ metricsRecordingsCurrent = [ b \in Backends |-> 0 ]
    /\ metricsRecordingsTotal = [ b \in Backends |-> 0 ]
    /\ jobs = << >>
    /\ spc = [ j \in Jobs |-> "none" ]
    /\ tpc = [ j \in Jobs |-> "none" ]
    /\ exited = FALSE
    /\ emitted = Nothing
    /\ hist = [ decs |-> [ j \in Jobs |-> 0 ],
                raced |-> [ j \in Jobs |-> FALSE ],
                phase |-> [ s \in ServiceIds |-> "clear" ] ]
    /\ request = NoRequest
    /\ validation = NotValidated
    /\ environment = EmptyDict
    /\ trustedProxies = << >>
    /\ proxiesFix = NotCalled
    /\ protectedMetrics = MetricsNotCalled

(***************************************************************************)
(* startRecording                                                          *)
(***************************************************************************)
\* Variant of the test of line 335 that looks at the wrong map.
startRecordingIsKnown_InStopping(serviceId) ==
    serviceId \in DOMAIN servicesStopping

\* The test of line 335: the request is answered without a new Service.
startRecordingIsKnown(serviceId) == serviceId \in DOMAIN services

\* Lines 307-348 for a well-formed start request of a validated backend:
\* under the lock, either "return {}" for a known serviceId, or a new
\* Service is constructed and stored in services.  The block is left and
\* the lock released in both cases.  For a new Service the start thread is
\* then launched and the request answered; until the thread executes its
\* first statement no other thread can tell whether it was launched.
startRecording(backend, token) ==
    /\ ~exited
    /\ servicesLock = NoThread
    /\ IF startRecordingIsKnown(ServiceId(backend, token))
       THEN /\ emitted' = Answer(200, "Trying to start recording again",
                                 "start", backend, token, 0)
            /\ UNCHANGED << services, jobs, spc, hist >>
       ELSE /\ Len(jobs) < MaxJobs
            /\ jobs' = Append(jobs, [ backend |-> backend, token |-> token ])
            /\ services' = DictSet(services, ServiceId(backend, token),
                                   Len(jobs) + 1)
            /\ spc' = [ spc EXCEPT ![Len(jobs) + 1] = "inc" ]
            /\ hist' = [ hist EXCEPT
                           !.phase[ServiceId(backend, token)] = "started" ]
            /\ emitted' = Answer(200, "Start recording", "start", backend,
                                 token, Len(jobs) + 1)
    /\ UNCHANGED << servicesStopping, servicesLock, metricsRecordingsCurrent,
                    metricsRecordingsTotal, tpc, exited >>
    /\ UNCHANGED << request, validation, environment, trustedProxies,
                    proxiesFix,
                    configVars, protectedMetrics >>

(***************************************************************************)
(* _startRecordingService: the start thread of a Service.                  *)
(***************************************************************************)
\* Lines 361-362: metricsRecordingsCurrent.labels(service.backend).inc() and
\* metricsRecordingsTotal.labels(service.backend).inc(), without the lock.
startRecordingServiceInc(j) ==
    /\ spc[j] = "inc"
    /\ metricsRecordingsCurrent' =
         [ metricsRecordingsCurrent EXCEPT ![jobs[j].backend] = @ + 1 ]
    /\ metricsRecordingsTotal' =
         [ metricsRecordingsTotal EXCEPT ![jobs[j].backend] = @ + 1 ]
    /\ spc' = [ spc EXCEPT ![j] = "starting" ]
    /\ emitted' = Nothing
    /\ UNCHANGED << services, servicesStopping, servicesLock, jobs, tpc,
                    exited, hist >>
    /\ UNCHANGED << request, validation, environment, trustedProxies,
                    proxiesFix,
                    configVars, protectedMetrics >>

\* Line 365: service.start(actorType, actorId) returns; the thread ends.
startRecordingServiceReturns(j) ==
    /\ spc[j] = "starting"
    /\ spc' = [ spc EXCEPT ![j] = "done" ]
    /\ emitted' = Nothing
    /\ UNCHANGED << services, servicesStopping, servicesLock,
                    metricsRecordingsCurrent, metricsRecordingsTotal, jobs,
                    tpc, exited, hist >>
    /\ UNCHANGED << request, validation, environment, trustedProxies,
                    proxiesFix,
                    configVars, protectedMetrics >>

\* Variant of lines 364-366 without the try statement: the exception of
\* service.start leaves the thread's function.
startRecordingServiceRaises_Uncaught(j) ==
    /\ spc[j] = "starting"
    /\ spc' = [ spc EXCEPT ![j] = "crashed" ]
    /\ emitted' = Nothing
    /\ UNCHANGED << services, servicesStopping, servicesLock,
                    metricsRecordingsCurrent, metricsRecordingsTotal, jobs,
                    tpc, exited, hist >>
    /\ UNCHANGED << request, validation, environment, trustedProxies,
                    proxiesFix,
                    configVars, protectedMetrics >>

\* Lines 365-366: service.start(actorType, actorId) raises; the exception is
\* caught by "except Exception".
startRecordingServiceRaises(j) ==
    /\ spc[j] = "starting"
    /\ spc' = [ spc EXCEPT ![j] = "fail_lock" ]
    /\ emitted' = Nothing
    /\ UNCHANGED << services, servicesStopping, servicesLock,
                    metricsRecordingsCurrent, metricsRecordingsTotal, jobs,
                    tpc, exited, hist >>
    /\ UNCHANGED << request, validation, environment, trustedProxies,
                    proxiesFix,
                    configVars, protectedMetrics >>

\* Variant of the failure handler without the test of line 368.
startRecordingServiceIsGone_Unchecked(serviceId) == FALSE

\* The test of line 368.
startRecordingServiceIsGone(serviceId) == serviceId \notin DOMAIN services

\* Variant in which the "return" of line 373 leaves the thread's function
\* with the lock still held.
startRecordingServiceLockAfterReturn_Held(j) == StartThread(j)

\* Line 373: "return" inside the "with servicesLock:" block; leaving the
\* block releases the lock.
startRecordingServiceLockAfterReturn(j) == NoThread

\* Lines 367-377: under the lock, "return" when the serviceId is no longer
\* in services (the block is left, the thread ends), else
\* services.pop(serviceId).  A KeyError of pop would leave the block and the
\* thread's function.
startRecordingServiceFailed(j) ==
    /\ spc[j] = "fail_lock"
    /\ servicesLock = NoThread
    /\ IF startRecordingServiceIsGone(JobServiceId(j))
       THEN /\ spc' = [ spc EXCEPT ![j] = "failed" ]
            /\ emitted' = Logged("Recording stopped before starting", j)
            /\ servicesLock' = startRecordingServiceLockAfterReturn(j)
            /\ UNCHANGED << services, hist >>
       ELSE IF JobServiceId(j) \in DOMAIN services
       THEN /\ services' = DictPop(services, JobServiceId(j))
            /\ servicesLock' = StartThread(j)
            /\ spc' = [ spc EXCEPT ![j] = "fail_dec" ]
            /\ hist' = [ hist EXCEPT !.phase[JobServiceId(j)] = "removed" ]
            /\ emitted' = Logged("Failed to start recording", j)
       ELSE /\ spc' = [ spc EXCEPT ![j] = "crashed" ]
            /\ emitted' = Logged("KeyError", j)
            /\ UNCHANGED << services, servicesLock, hist >>
    /\ UNCHANGED << servicesStopping, metricsRecordingsCurrent,
                    metricsRecordingsTotal, jobs, tpc, exited >>
    /\ UNCHANGED << request, validation, environment, trustedProxies,
                    proxiesFix,
                    configVars, protectedMetrics >>

\* Line 379: metricsRecordingsCurrent.labels(service.backend).dec(); the
\* block ends and the lock is released.
startRecordingServiceDec(j) ==
    /\ spc[j] = "fail_dec"
    /\ metricsRecordingsCurrent' =
         [ metricsRecordingsCurrent EXCEPT ![jobs[j].backend] = @ - 1 ]
    /\ servicesLock' = NoThread
    /\ spc' = [ spc EXCEPT ![j] = "failed" ]
    /\ hist' = [ hist EXCEPT !.decs[j] = @ + 1 ]
    /\ emitted' = Nothing
    /\ UNCHANGED << services, servicesStopping, metricsRecordingsTotal, jobs,
                    tpc, exited >>
    /\ UNCHANGED << request, validation, environment, trustedProxies,
                    proxiesFix,
                    configVars, protectedMetrics >>

(***************************************************************************)
(* stopRecording                                                           *)
(***************************************************************************)
\* Variant of the test of line 418 without its second operand.
stopRecordingIsStopping_AnyAbsent(serviceId) ==
    serviceId \notin DOMAIN services

\* Variant of the test of line 418 with its first operand not negated.
stopRecordingIsStopping_InBoth(serviceId) ==
    serviceId \in DOMAIN services /\ serviceId \in DOMAIN servicesStopping

\* The test of line 418.
stopRecordingIsStopping(serviceId) ==
    serviceId \notin DOMAIN services /\ serviceId \in DOMAIN servicesStopping

\* The test of line 422.
stopRecordingIsUnknown(serviceId) == serviceId \notin DOMAIN services

\* Variant in which the block ends after line 428, so that line 430 is
\* executed without the lock.
stopRecordingLockAfterPop_Released(service) == NoThread

\* The "with servicesLock:" block of lines 417-430 is still open after line
\* 428: the handler keeps the lock until line 430 has been executed.
stopRecordingLockAfterPop(service) == StopRequestThread(service)

\* Lines 382-428 for a well-formed stop request of a validated backend:
\* under the lock, "return {}" for a recording that is being stopped and
\* NotFound for an unknown one (both leave the block and release the lock),
\* else service = services[serviceId] and services.pop(serviceId), after
\* which the handler is still inside the block.
stopRecording(backend, token) ==
    /\ ~exited
    /\ servicesLock = NoThread
    /\ IF stopRecordingIsStopping(ServiceId(backend, token))
       THEN /\ emitted' = Answer(200, "Trying to stop recording again",
                                 "stop", backend, token, 0)
            /\ hist' = [ hist EXCEPT
                           !.phase[ServiceId(backend, token)] = "clear" ]
            /\ UNCHANGED << services, servicesLock, tpc >>
       ELSE IF stopRecordingIsUnknown(ServiceId(backend, token))
       THEN /\ emitted' = Answer(404, "Trying to stop unknown recording",
                                 "stop", backend, token, 0)
            /\ hist' = [ hist EXCEPT
                           !.phase[ServiceId(backend, token)] = "clear" ]
            /\ UNCHANGED << services, servicesLock, tpc >>
       ELSE LET service == services[ServiceId(backend, token)] IN
            /\ services' = DictPop(services, ServiceId(backend, token))
            /\ servicesLock' = stopRecordingLockAfterPop(service)
            /\ tpc' = [ tpc EXCEPT ![service] = "moving" ]
            /\ hist' = [ hist EXCEPT
                           !.phase[ServiceId(backend, token)] = "clear",
                           !.raced[service] =
                               spc[service] \notin {"done", "failed"} ]
            /\ emitted' = Accepted("stop", backend, token, service)
    /\ UNCHANGED << servicesStopping, metricsRecordingsCurrent,
                    metricsRecordingsTotal, jobs, spc, exited >>
    /\ UNCHANGED << request, validation, environment, trustedProxies,
                    proxiesFix,
                    configVars, protectedMetrics >>

\* Variant of lines 430-437 in which the stop thread is launched inside the
\* "with servicesLock:" block and joined there: the handler holds the lock
\* while service.stop is executed.
stopRecordingInsert_KeepsLock(j) ==
    /\ tpc[j] = "moving"
    /\ servicesStopping' = DictSet(servicesStopping, JobServiceId(j), j)
    /\ servicesLock' = StopRequestThread(j)
    /\ tpc' = [ tpc EXCEPT ![j] = "stopping" ]
    /\ emitted' = Returned(200, "Stop recording", "stop", j)
    /\ UNCHANGED << services, metricsRecordingsCurrent,
                    metricsRecordingsTotal, jobs, spc, exited, hist >>
    /\ UNCHANGED << request, validation, environment, trustedProxies,
                    proxiesFix,
                    configVars, protectedMetrics >>

\* Lines 430-437: servicesStopping[serviceId] = service; the block ends and
\* the lock is released; the stop thread is launched and the request
\* answered.
stopRecordingInsert(j) ==
    /\ tpc[j] = "moving"
    /\ servicesStopping' = DictSet(servicesStopping, JobServiceId(j), j)
    /\ servicesLock' = NoThread
    /\ tpc' = [ tpc EXCEPT ![j] = "stopping" ]
    /\ emitted' = Returned(200, "Stop recording", "stop", j)
    /\ UNCHANGED << services, metricsRecordingsCurrent,
                    metricsRecordingsTotal, jobs, spc, exited, hist >>
    /\ UNCHANGED << request, validation, environment, trustedProxies,
                    proxiesFix,
                    configVars, protectedMetrics >>

(***************************************************************************)
(* handleBackendRequest, for the request that a client sends.  The client  *)
(* may send the same request again: it is validated in the same way, and   *)
(* handled in the state the server is in by then.                           *)
(***************************************************************************)
\* Lines 309-319: "'owner' in data['start']" and "'type' in
\* data['start']['actor']" raise TypeError when the value they look into is
\* a number; the tests are made in the order of the code, a BadRequest of
\* an earlier test comes first.
startRecordingRaisesTypeError(data) ==
    /\ "start" \in DOMAIN data
    /\ \/ data["start"] = jsonNumber
       \/ /\ "owner" \in DOMAIN data["start"]
          /\ "actor" \in DOMAIN data["start"]
          /\ data["start"]["actor"] = jsonNumber

\* Line 412: "'actor' in data['stop']" raises TypeError when data['stop']
\* is a number.
stopRecordingRaisesTypeError(data) ==
    /\ "stop" \in DOMAIN data
    /\ data["stop"] = jsonNumber

\* Lines 212-219 with lines 309-319 and 412: whether the handler of the
\* validated request ends with a TypeError, before servicesLock is taken;
\* line 212, "'type' not in data", raises it when data is a number.
handleBackendRequestRaisesTypeError(data) ==
    \/ data = jsonNumber
    \/ /\ "type" \in DOMAIN data
       /\ \/ data["type"] = "start" /\ startRecordingRaisesTypeError(data)
          \/ data["type"] = "stop" /\ stopRecordingRaisesTypeError(data)

\* Lines 309-322: raise BadRequest() for a start request without start,
\* owner, actor, actor type or actor id.
startRecordingIsBadRequest(data) ==
    \/ "start" \notin DOMAIN data
    \/ "owner" \notin DOMAIN data["start"]
    \/ "actor" \notin DOMAIN data["start"]
    \/ "type" \notin DOMAIN data["start"]["actor"]
    \/ "id" \notin DOMAIN data["start"]["actor"]

\* Lines 407-408: raise BadRequest() for a stop request without stop.
stopRecordingIsBadRequest(data) == "stop" \notin DOMAIN data

\* Lines 212-221 with lines 309-322 and 407-408: whether the validated
\* request is answered BadRequest, before servicesLock is taken.
handleBackendRequestIsBadRequest(data) ==
    \/ "type" \notin DOMAIN data
    \/ data["type"] \notin { "start", "stop" }
    \/ data["type"] = "start" /\ startRecordingIsBadRequest(data)
    \/ data["type"] = "stop" /\ stopRecordingIsBadRequest(data)

\* Line 210: backend, data = _validateRequest().  An exception of
\* _validateRequest ends the handler and is answered by its status.
handleBackendRequestValidate ==
    /\ request # NoRequest
    /\ validation = NotValidated
    /\ ~exited
    /\ validation' = validateRequest(request)
    /\ emitted' = IF validation'.status = 200
                  THEN Nothing
                  ELSE Answer(validation'.status, validation'.log,
                              "", "", "", 0)
    /\ UNCHANGED << services, servicesStopping, servicesLock,
                    metricsRecordingsCurrent, metricsRecordingsTotal, jobs,
                    spc, tpc, exited, hist, request, environment,
                    trustedProxies, proxiesFix,
                    configVars, protectedMetrics >>

\* Lines 212-221, for a request that _validateRequest returned from: a
\* TypeError (answered 500 Internal Server Error), BadRequest,
\* startRecording or stopRecording.
handleBackendRequest ==
    /\ validation.status = 200
    /\ IF handleBackendRequestRaisesTypeError(validation.data)
       THEN /\ ~exited
            /\ emitted' = Answer(500, "TypeError", "", "", "", 0)
            /\ UNCHANGED << services, servicesStopping, servicesLock,
                            metricsRecordingsCurrent, metricsRecordingsTotal,
                            jobs, spc, tpc, exited, hist, request,
                            validation, environment, trustedProxies,
                            proxiesFix,
                            configVars, protectedMetrics >>
       ELSE IF handleBackendRequestIsBadRequest(validation.data)
       THEN /\ ~exited
            /\ emitted' = Answer(400, "BadRequest", "", "", "", 0)
            /\ UNCHANGED << services, servicesStopping, servicesLock,
                            metricsRecordingsCurrent, metricsRecordingsTotal,
                            jobs, spc, tpc, exited, hist, request,
                            validation, environment, trustedProxies,
                            proxiesFix,
                            configVars, protectedMetrics >>
       ELSE IF validation.data["type"] = "start"
       THEN startRecording(validation.backend, request.token)
       ELSE stopRecording(validation.backend, request.token)

(***************************************************************************)
(* _stopRecordingService: the stop thread of a Service.                    *)
(***************************************************************************)
\* Line 451: service.stop(actorType, actorId) returns.
stopRecordingServiceReturns(j) ==
    /\ tpc[j] = "stopping"
    /\ tpc' = [ tpc EXCEPT ![j] = "fin_lock" ]
    /\ emitted' = Nothing
    /\ UNCHANGED << services, servicesStopping, servicesLock,
                    metricsRecordingsCurrent, metricsRecordingsTotal, jobs,
                    spc, exited, hist >>
    /\ UNCHANGED << request, validation, environment, trustedProxies,
                    proxiesFix,
                    configVars, protectedMetrics >>

\* Lines 451-453: service.stop(actorType, actorId) raises; the exception is
\* caught by "except Exception" and logged.
stopRecordingServiceRaises(j) ==
    /\ tpc[j] = "stopping"
    /\ tpc' = [ tpc EXCEPT ![j] = "fin_lock" ]
    /\ emitted' = Logged("Failed to stop recording", j)
    /\ UNCHANGED << services, servicesStopping, servicesLock,
                    metricsRecordingsCurrent, metricsRecordingsTotal, jobs,
                    spc, exited, hist >>
    /\ UNCHANGED << request, validation, environment, trustedProxies,
                    proxiesFix,
                    configVars, protectedMetrics >>

\* Variant of the test of line 456 with the condition inverted.
stopRecordingServiceIsMissing_Inverted(serviceId) ==
    serviceId \in DOMAIN servicesStopping

\* The test of line 456.
stopRecordingServiceIsMissing(serviceId) ==
    serviceId \notin DOMAIN servicesStopping

\* Lines 454-460: under the lock, the error "Recording stopped when not in
\* the list of stopping services" is logged, or
\* servicesStopping.pop(serviceId).  A KeyError of pop would leave the block
\* and the thread's function.
stopRecordingServiceFinished(j) ==
    /\ tpc[j] = "fin_lock"
    /\ servicesLock = NoThread
    /\ IF stopRecordingServiceIsMissing(JobServiceId(j))
       THEN /\ servicesLock' = StopThread(j)
            /\ tpc' = [ tpc EXCEPT ![j] = "fin_dec" ]
            /\ emitted' = Logged("Recording stopped when not in the list of stopping services", j)
            /\ UNCHANGED servicesStopping
       ELSE IF JobServiceId(j) \in DOMAIN servicesStopping
       THEN /\ servicesStopping' = DictPop(servicesStopping, JobServiceId(j))
            /\ servicesLock' = StopThread(j)
            /\ tpc' = [ tpc EXCEPT ![j] = "fin_dec" ]
            /\ emitted' = Nothing
       ELSE /\ tpc' = [ tpc EXCEPT ![j] = "crashed" ]
            /\ emitted' = Logged("KeyError", j)
            /\ UNCHANGED << servicesStopping, servicesLock >>
    /\ UNCHANGED << services, metricsRecordingsCurrent,
                    metricsRecordingsTotal, jobs, spc, exited, hist >>
    /\ UNCHANGED << request, validation, environment, trustedProxies,
                    proxiesFix,
                    configVars, protectedMetrics >>

\* Line 462: metricsRecordingsCurrent.labels(service.backend).dec(); the
\* block ends and the lock is released.
stopRecordingServiceDec(j) ==
    /\ tpc[j] = "fin_dec"
    /\ metricsRecordingsCurrent' =
         [ metricsRecordingsCurrent EXCEPT ![jobs[j].backend] = @ - 1 ]
    /\ servicesLock' = NoThread
    /\ tpc' = [ tpc EXCEPT ![j] = "done" ]
    /\ hist' = [ hist EXCEPT !.decs[j] = @ + 1 ]
    /\ emitted' = Nothing
    /\ UNCHANGED << services, servicesStopping, metricsRecordingsTotal, jobs,
                    spc, exited >>
    /\ UNCHANGED << request, validation, environment, trustedProxies,
                    proxiesFix,
                    configVars, protectedMetrics >>

(***************************************************************************)
(* _stopServicesOnExit: the atexit handler.  The interpreter exits, the    *)
(* server receives no more requests; threads that are running go on.       *)
(***************************************************************************)
\* Lines 468-472: under the lock, every serviceId of services is popped.
stopServicesOnExit ==
    /\ ~exited
    /\ servicesLock = NoThread
    /\ services' = EmptyDict
    /\ exited' = TRUE
    /\ hist' = [ hist EXCEPT
                   !.phase = [ s \in DOMAIN hist.phase |->
                                 IF s \in DOMAIN services THEN "removed"
                                                          ELSE @[s] ] ]
    /\ emitted' = Nothing
    /\ UNCHANGED << servicesStopping, servicesLock, metricsRecordingsCurrent,
                    metricsRecordingsTotal, jobs, spc, tpc >>
    /\ UNCHANGED << request, validation, environment, trustedProxies,
                    proxiesFix,
                    configVars, protectedMetrics >>

(***************************************************************************)
(* The server.                                                             *)
(***************************************************************************)
\* The steps of a server that receives requests for the given pairs.
NextFor(pairs) ==
    \/ \E pair \in pairs : startRecording(pair[1], pair[2])
    \/ \E j \in Jobs : startRecordingServiceInc(j)
    \/ \E j \in Jobs : startRecordingServiceReturns(j)
    \/ \E j \in Jobs : startRecordingServiceRaises(j)
    \/ \E j \in Jobs : startRecordingServiceFailed(j)
    \/ \E j \in Jobs : startRecordingServiceDec(j)
    \/ \E pair \in pairs : stopRecording(pair[1], pair[2])
    \/ \E j \in Jobs : stopRecordingInsert(j)
    \/ \E j \in Jobs : stopRecordingServiceReturns(j)
    \/ \E j \in Jobs : stopRecordingServiceRaises(j)
    \/ \E j \in Jobs : stopRecordingServiceFinished(j)
    \/ \E j \in Jobs : stopRecordingServiceDec(j)
    \/ stopServicesOnExit

Next == NextFor(Pairs)

Spec == Init /\ [][Next]_vars

(***************************************************************************)
(* Fairness.  Threads are scheduled fairly: the handler of an accepted     *)
(* stop request and the stop thread go on until they end, a call of        *)
(* service.stop terminates (by returning or raising), a thread inside a    *)
(* lock-protected block leaves it, and a stop thread that waits for        *)
(* servicesLock eventually gets it.  Nothing forces requests to arrive,    *)
(* the interpreter to exit or service.start to terminate.                  *)
(***************************************************************************)
Fairness ==
    \A j \in Jobs :
        /\ WF_vars(startRecordingServiceDec(j))
        /\ WF_vars(stopRecordingInsert(j))
        /\ WF_vars(stopRecordingServiceReturns(j)
                     \/ stopRecordingServiceRaises(j))
        /\ SF_vars(stopRecordingServiceFinished(j))
        /\ WF_vars(stopRecordingServiceDec(j))

\* The progress properties are checked for a server whose requests all
\* concern one room.
LivePairs == { <<"a", "c">> }

LiveNext == NextFor(LivePairs)

LiveSpec == Init /\ [][LiveNext]_vars /\ Fairness

\* Fair scheduling of every thread that waits for servicesLock: a start
\* thread whose service.start raised eventually gets the lock as well.
LockFairness ==
    /\ Fairness
    /\ \A j \in Jobs : SF_vars(startRecordingServiceFailed(j))

LockSpec == Init /\ [][LiveNext]_vars /\ LockFairness

(***************************************************************************)
(* The server with requests for two rooms of two backends whose backend    *)
(* and token give the same serviceId: "a" with "b-c", "a-b" with "c".      *)
(***************************************************************************)
CollidingPairs == { <<"a", "b-c">>, <<"a-b", "c">> }

CollisionInit ==
    /\ ConfigLoaded(serverConf)
    /\ services = EmptyDict
    /\ servicesStopping = EmptyDict
    /\ servicesLock = NoThread
    /\ metricsRecordingsCurrent = [ b \in { p[1] : p \in CollidingPairs } |-> 0 ]
    /\ metricsRecordingsTotal = [ b \in { p[1] : p \in CollidingPairs } |-> 0 ]
    /\ jobs = << >>
    /\ spc = [ j \in Jobs |-> "none" ]
    /\ tpc = [ j \in Jobs |-> "none" ]
    /\ exited = FALSE
    /\ emitted = Nothing
    /\ hist = [ decs |-> [ j \in Jobs |-> 0 ],
                raced |-> [ j \in Jobs |-> FALSE ],
                phase |-> [ s \in { ServiceId(p[1], p[2]) :
                                      p \in CollidingPairs } |-> "clear" ] ]
    /\ request = NoRequest
    /\ validation = NotValidated
    /\ environment = EmptyDict
    /\ trustedProxies = << >>
    /\ proxiesFix = NotCalled
    /\ protectedMetrics = MetricsNotCalled

CollisionNext == NextFor(CollidingPairs)

CollisionSpec == CollisionInit /\ [][CollisionNext]_vars

(***************************************************************************)
(* The server and one client.  The client sends a request, any request of  *)
(* Requests, to a server that is idle, or has a recording of room c of     *)
(* backend a running, or is stopping that recording.                       *)
(***************************************************************************)
\* The values of the Talk-Recording-Backend header: backends with a secret,
\* a backend with an empty secret, a backend that is not configured.
RequestBackends == { "a", "b", "e", "x" }

RequestRandoms == { "r1", "r2" }

\* The declared lengths: none, zero, and the lengths around the maximum
\* message sizes of the configuration.
RequestLengths == { NoContentLength, 0, 1, 512, 513, 1024, 1025 }

\* The values of the Talk-Recording-Checksum header sent with a backend, a
\* random and a body: the checksum under the secret of the backend (under
\* the empty secret when it has none), one of another request, one that is
\* no checksum, and one that is not ASCII.
RequestChecksums(backend, random, body) ==
    { calculateChecksum(
          IF backend # None /\ Truthy(getBackendSecret(backend))
          THEN getBackendSecret(backend) ELSE "",
          IF random # None THEN random ELSE "",
          body),
      calculateChecksum("sa", "r1", "{}"),
      "0000",
      NonAsciiChecksum }

Requests ==
    UNION { { Request("c", backend, random, checksum, content_length, body) :
                checksum \in RequestChecksums(backend, random, body)
                               \cup { None },
                content_length \in RequestLengths } :
            backend \in RequestBackends \cup { None },
            random \in RequestRandoms \cup { None },
            body \in Bodies }

\* The server is idle.
RequestInitIdle ==
    /\ services = EmptyDict
    /\ servicesStopping = EmptyDict
    /\ metricsRecordingsCurrent = [ b \in Backends |-> 0 ]
    /\ metricsRecordingsTotal = [ b \in Backends |-> 0 ]
    /\ jobs = << >>
    /\ spc = [ j \in Jobs |-> "none" ]
    /\ tpc = [ j \in Jobs |-> "none" ]
    /\ emitted = Nothing
    /\ hist = [ decs |-> [ j \in Jobs |-> 0 ],
                raced |-> [ j \in Jobs |-> FALSE ],
                phase |-> [ s \in ServiceIds |-> "clear" ] ]

\* The recording of room c of backend a has been started.
RequestInitRunning ==
    /\ services = ("a-c" :> 1)
    /\ servicesStopping = EmptyDict
    /\ metricsRecordingsCurrent = [ b \in Backends |->
                                      IF b = "a" THEN 1 ELSE 0 ]
    /\ metricsRecordingsTotal = [ b \in Backends |->
                                    IF b = "a" THEN 1 ELSE 0 ]
    /\ jobs = << [ backend |-> "a", token |-> "c" ] >>
    /\ spc = [ j \in Jobs |-> IF j = 1 THEN "done" ELSE "none" ]
    /\ tpc = [ j \in Jobs |-> "none" ]
    /\ emitted = Nothing
    /\ hist = [ decs |-> [ j \in Jobs |-> 0 ],
                raced |-> [ j \in Jobs |-> FALSE ],
                phase |-> [ s \in ServiceIds |->
                              IF s = "a-c" THEN "started" ELSE "clear" ] ]

\* The recording of room c of backend a is being stopped.
RequestInitStopping ==
    /\ services = EmptyDict
    /\ servicesStopping = ("a-c" :> 1)
    /\ metricsRecordingsCurrent = [ b \in Backends |->
                                      IF b = "a" THEN 1 ELSE 0 ]
    /\ metricsRecordingsTotal = [ b \in Backends |->
                                    IF b = "a" THEN 1 ELSE 0 ]
    /\ jobs = << [ backend |-> "a", token |-> "c" ] >>
    /\ spc = [ j \in Jobs |-> IF j = 1 THEN "done" ELSE "none" ]
    /\ tpc = [ j \in Jobs |-> IF j = 1 THEN "stopping" ELSE "none" ]
    /\ emitted = Returned(200, "Stop recording", "stop", 1)
    /\ hist = [ decs |-> [ j \in Jobs |-> 0 ],
                raced |-> [ j \in Jobs |-> FALSE ],
                phase |-> [ s \in ServiceIds |-> "clear" ] ]

RequestInit ==
    /\ ConfigLoaded(serverConf)
    /\ RequestInitIdle \/ RequestInitRunning \/ RequestInitStopping
    /\ servicesLock = NoThread
    /\ exited = FALSE
    /\ request \in Requests
    /\ validation = NotValidated
    /\ environment = EmptyDict
    /\ trustedProxies = << >>
    /\ proxiesFix = NotCalled
    /\ protectedMetrics = MetricsNotCalled

RequestNext ==
    \/ handleBackendRequestValidate
    \/ handleBackendRequest
    \/ \E j \in Jobs : startRecordingServiceInc(j)
    \/ \E j \in Jobs : startRecordingServiceReturns(j)
    \/ \E j \in Jobs : startRecordingServiceRaises(j)
    \/ \E j \in Jobs : startRecordingServiceFailed(j)
    \/ \E j \in Jobs : startRecordingServiceDec(j)
    \/ \E j \in Jobs : stopRecordingInsert(j)
    \/ \E j \in Jobs : stopRecordingServiceReturns(j)
    \/ \E j \in Jobs : stopRecordingServiceRaises(j)
    \/ \E j \in Jobs : stopRecordingServiceFinished(j)
    \/ \E j \in Jobs : stopRecordingServiceDec(j)
    \/ stopServicesOnExit

RequestSpec == RequestInit /\ [][RequestNext]_vars

(***************************************************************************)
(* The middleware and one request.  The server is configured with any list *)
(* of TrustedProxiesLists and receives a request from any peer of          *)
(* RemoteAddresses (or with no or an empty REMOTE_ADDR), without           *)
(* X-Forwarded-For header or with one of up to MaxChain entries.           *)
(***************************************************************************)
\* The most entries of an X-Forwarded-For header.
MaxChain == 3

\* REMOTE_ADDR as the server sets it: empty, no address, an IPv4 address
\* without and with port, an IPv6 address in brackets with port and not in
\* compressed form, and two other peers.
RemoteAddresses ==
    { << >>,
      << "x" >>,
      << "1", "0", ".", "0", ".", "0", ".", "1" >>,
      << "1", "0", ".", "0", ".", "0", ".", "1", ":", "8", "0" >>,
      << "[", "a", ":", "0", ":", ":", "1", "]", ":", "8", "0" >>,
      << "4", ".", "4", ".", "4", ".", "4" >>,
      << "b", ":", ":", "1" >> }

\* The entries of the X-Forwarded-For header: an IPv4 address, an IPv6
\* address in brackets with port after a space, an IPv4 address with port,
\* an IPv6 address that is not in compressed form, no address, nothing.
ForwardedEntries ==
    { << "1", "0", ".", "0", ".", "0", ".", "2" >>,
      << " ", "[", "a", ":", ":", "1", "]", ":", "8", "0" >>,
      << "4", ".", "4", ".", "4", ".", "4", ":", "8", "0" >>,
      << "b", ":", "0", ":", ":", "1" >>,
      << "x" >>,
      << >> }

RECURSIVE join(_, _)
\* sep.join(list), for a list that is not empty.
join(list, sep) ==
    IF Len(list) = 1 THEN list[1]
    ELSE list[1] \o << sep >> \o join(Tail(list), sep)

\* The X-Forwarded-For headers: the entries separated by commas.
ForwardedFors ==
    { join(list, ",") :
        list \in UNION { [ 1..n -> ForwardedEntries ] : n \in 1..MaxChain } }

\* The configured lists of trusted proxies.
TrustedProxiesLists ==
    { << >>,
      << Network(IPv4Address(10, 0, 0, 0), 8) >>,
      << Network(IPv4Address(10, 0, 0, 0), 8),
         Network(IPv6Address(10, 0), 16) >>,
      << Network(IPv6Address(10, 1), 128),
         Network(IPv4Address(10, 0, 0, 1), 32) >>,
      << Network(IPv4Address(4, 4, 4, 4), 32),
         Network(IPv4Address(10, 0, 0, 0), 8),
         Network(IPv6Address(11, 0), 16) >> }

\* The WSGI environments: with and without REMOTE_ADDR and X-Forwarded-For.
Environments ==
    { EmptyDict }
    \cup { "REMOTE_ADDR" :> remoteAddress :
             remoteAddress \in RemoteAddresses }
    \cup { "HTTP_X_FORWARDED_FOR" :> forwardedFor :
             forwardedFor \in ForwardedFors }
    \cup { ("REMOTE_ADDR" :> remoteAddress)
           @@ ("HTTP_X_FORWARDED_FOR" :> forwardedFor) :
             remoteAddress \in RemoteAddresses,
             forwardedFor \in ForwardedFors }

AddressInit ==
    /\ ConfigLoaded(serverConf)
    /\ RequestInitIdle
    /\ servicesLock = NoThread
    /\ exited = FALSE
    /\ request = NoRequest
    /\ validation = NotValidated
    /\ environment \in Environments
    /\ trustedProxies \in TrustedProxiesLists
    /\ proxiesFix = [ pc |-> "call", received |-> environment, log |-> "" ]
    /\ protectedMetrics = MetricsNotCalled

AddressNext == TrustedProxiesFixCall

AddressSpec == AddressInit /\ [][AddressNext]_vars

(***************************************************************************)
(* The metrics endpoint: a request for /metrics goes through               *)
(* TrustedProxiesFix and then ProtectedMetrics (lines 189-192).            *)
(***************************************************************************)
\* ProtectedMetrics.__call__, lines 181-188.  A KeyError of the environment
\* or a ValueError of ip_address is caught by no one: the WSGI server answers
\* 500 Internal Server Error with a page of its own.
ProtectedMetricsCall ==
    /\ proxiesFix.pc = "app"
    /\ protectedMetrics.pc = "idle"
    /\ protectedMetrics'
         = IF "REMOTE_ADDR" \notin DOMAIN environment
           THEN [ pc |-> "done", status |-> 500, body |-> "KeyError",
                  metricsCalled |-> FALSE ]
           ELSE IF ip_address(environment["REMOTE_ADDR"]) = NotAnAddress
           THEN [ pc |-> "done", status |-> 500, body |-> "ValueError",
                  metricsCalled |-> FALSE ]
           ELSE IF ~isAddressInNetworks(
                        ip_address(environment["REMOTE_ADDR"]),
                        statsAllowedIps)
           THEN [ pc |-> "done", status |-> 403, body |-> "",
                  metricsCalled |-> FALSE ]
           ELSE [ pc |-> "done", status |-> 200, body |-> "metrics",
                  metricsCalled |-> TRUE ]
    /\ UNCHANGED << services, servicesStopping, servicesLock,
                    metricsRecordingsCurrent, metricsRecordingsTotal, jobs,
                    spc, tpc, exited, emitted, hist, request, validation,
                    environment, trustedProxies, proxiesFix, configVars >>

\* What stands for an option that a file does not have, where a text is
\* expected.
NotSet == << "NotSet" >>

\* The section [app] of a file with the value of 'trustedproxies'.
AppSection(trustedproxies) ==
    IF trustedproxies = NotSet THEN EmptyDict
    ELSE "app" :> ("trustedproxies" :> trustedproxies)

\* The section [stats] of a file with the value of 'allowed_ips'.
StatsSection(allowed_ips) ==
    IF allowed_ips = NotSet THEN EmptyDict
    ELSE "stats" :> ("allowed_ips" :> allowed_ips)

\* The files the server of the metrics endpoint runs with.
MetricsFiles ==
    { serverConf @@ AppSection(trustedproxies) @@ StatsSection(allowed_ips) :
        trustedproxies \in { NotSet, << "1", "0", ".", "0", ".", "0", ".", "0", "/", "8", ",", " ", "a", ":", ":", "/", "1", "6" >> },
        allowed_ips \in { NotSet, << "1", "0", ".", "0", ".", "0", ".", "0", "/", "8" >>,
                          << " ", "4", ".", "4", ".", "4", ".", "4", " ", ",", "a", ":", ":", "/", "1", "6" >> } }

MetricsInit ==
    /\ \E file \in MetricsFiles :
         /\ ConfigLoaded(file)
         /\ trustedProxies = loadTrustedProxies(file)
    /\ RequestInitIdle
    /\ servicesLock = NoThread
    /\ exited = FALSE
    /\ request = NoRequest
    /\ validation = NotValidated
    /\ environment \in Environments
    /\ proxiesFix = [ pc |-> "call", received |-> environment, log |-> "" ]
    /\ protectedMetrics = MetricsNotCalled

MetricsNext == TrustedProxiesFixCall \/ ProtectedMetricsCall

MetricsSpec == MetricsInit /\ [][MetricsNext]_vars

(***************************************************************************)
(* The Config on its own: it is constructed, loads one file, and then its  *)
(* methods are called with the URLs of backends and of signaling servers.  *)
(***************************************************************************)
\* The values of 'trustedproxies' and of 'allowed_ips' in the files.
ListValues ==
    { NotSet, << >>, << "1", "0", ".", "0", ".", "0", ".", "0", "/", "8" >>, << "x", ",", " ", "1", "0", ".", "0", ".", "0", ".", "0", "/", "8", " ", ",", "a", ":", ":", "/", "1", "6" >>,
      << "1", "0", ".", "0", ".", "0", ".", "1", "/", "8", ",", "1", "0", ".", "0", ".", "0", ".", "1", ",", " ", ",", "4", ".", "4", ".", "4", ".", "4" >>, << " ", "a", ":", ":", "/", "1", "6", ",", "1", "2", "7", ".", "0", ".", "0", ".", "1" >> }

\* The files that differ in the two lists of networks.
ListFiles ==
    { serverConf @@ AppSection(trustedproxies) @@ StatsSection(allowed_ips) :
        trustedproxies \in ListValues, allowed_ips \in ListValues }

\* An option of a section with its value; None for an option the file does
\* not have.
Option(option, value) ==
    IF value = None THEN EmptyDict ELSE option :> value

SettingKeys == { "skipverify", "maxmessagesize", "videowidth", "videoheight",
                 "directory" }

\* The settings of a section: the options that a choice of values sets.
Settings(values) ==
    [ key \in { k \in SettingKeys : values[k] # None } |-> values[key] ]

\* The choices of values for the settings of the section [backend].
GlobalSettings ==
    { [ key \in SettingKeys |-> None ],
      ("skipverify" :> "true") @@ ("maxmessagesize" :> "4096")
        @@ ("videowidth" :> "640") @@ ("videoheight" :> "480")
        @@ ("directory" :> "/g"),
      ("skipverify" :> None) @@ ("maxmessagesize" :> "4096")
        @@ ("videowidth" :> "640") @@ ("videoheight" :> None)
        @@ ("directory" :> "/g") }

\* The choices of values for the settings of the section [backend-1].
OwnSettings ==
    { [ key \in SettingKeys |-> None ],
      [ key \in SettingKeys |-> "" ],
      ("skipverify" :> "false") @@ ("maxmessagesize" :> "512")
        @@ ("videowidth" :> "960") @@ ("videoheight" :> "540")
        @@ ("directory" :> "/d1"),
      ("skipverify" :> "false") @@ ("maxmessagesize" :> "")
        @@ ("videowidth" :> None) @@ ("videoheight" :> "540")
        @@ ("directory" :> ""),
      ("skipverify" :> "") @@ ("maxmessagesize" :> None)
        @@ ("videowidth" :> "960") @@ ("videoheight" :> "")
        @@ ("directory" :> None) }

\* The files that differ in the sections of the backends and of the
\* signaling servers: backend-2 and signaling-1 have their urls written
\* with a trailing slash.
BackendFiles ==
    { ("backend" :> (("backends" :> "backend-1,backend-2")
                     @@ Option("allowall", allowall)
                     @@ Option("secret", secret) @@ Settings(global)))
      @@ ("backend-1" :> (("url" :> "a") @@ Option("secret", secret1)
                          @@ Settings(own)))
      @@ ("backend-2" :> (("url" :> "b/") @@ ("secret" :> "sb")
                          @@ ("skipverify" :> "true")
                          @@ ("maxmessagesize" :> "2048")
                          @@ ("videowidth" :> "1280")
                          @@ ("videoheight" :> "720")
                          @@ ("directory" :> "/d2")))
      @@ ("signaling" :> (("signalings" :> "signaling-1")
                          @@ Option("internalsecret", internalsecret)))
      @@ ("signaling-1" :> (("url" :> "s/")
                            @@ Option("internalsecret", internalsecret1))) :
        allowall \in { None, "true", "false" },
        secret \in { None, "sc" },
        global \in GlobalSettings,
        own \in OwnSettings,
        secret1 \in { None, "sa" },
        internalsecret \in { None, "ic" },
        internalsecret1 \in { None, "", "i1" } }

ConfigFiles == ListFiles \cup BackendFiles

\* The URLs the methods are called with.
BackendUrls == { "a", "a/", "b", "b/", "e" }

SignalingUrls == { "s", "s/", "t" }

\* Config(): lines 33-41.
ConfigInit ==
    /\ configParser = EmptyDict
    /\ trustedProxies = << >>
    /\ backendIdsByBackendUrl = EmptyDict
    /\ signalingIdsBySignalingUrl = EmptyDict
    /\ statsAllowedIps = << >>
    /\ configCall = [ pc |-> "constructed", getter |-> "", url |-> "",
                      value |-> "" ]
    /\ RequestInitIdle
    /\ servicesLock = NoThread
    /\ exited = FALSE
    /\ request = NoRequest
    /\ validation = NotValidated
    /\ environment = EmptyDict
    /\ proxiesFix = NotCalled
    /\ protectedMetrics = MetricsNotCalled

\* Config.load, of a file that exists.
load ==
    /\ configCall.pc = "constructed"
    /\ \E file \in ConfigFiles :
         /\ configParser' = file
         /\ trustedProxies' = loadTrustedProxies(file)
         /\ backendIdsByBackendUrl' = loadBackends(file)
         /\ signalingIdsBySignalingUrl' = loadSignalings(file)
         /\ statsAllowedIps' = loadStatsAllowedIps(file)
    /\ configCall' = Loaded
    /\ UNCHANGED << services, servicesStopping, servicesLock,
                    metricsRecordingsCurrent, metricsRecordingsTotal, jobs,
                    spc, tpc, exited, emitted, hist, request, validation,
                    environment, proxiesFix, protectedMetrics >>

\* A call of Config.getBackendSecret.
getBackendSecretCall ==
    /\ configCall.pc # "constructed"
    /\ \E url \in BackendUrls :
         configCall' = [ pc |-> "returned", getter |-> "getBackendSecret",
                         url |-> url, value |-> getBackendSecret(url) ]
    /\ UNCHANGED << services, servicesStopping, servicesLock,
                    metricsRecordingsCurrent, metricsRecordingsTotal, jobs,
                    spc, tpc, exited, emitted, hist, request, validation,
                    environment, proxiesFix, protectedMetrics,
                    trustedProxies, configParser, backendIdsByBackendUrl,
                    signalingIdsBySignalingUrl, statsAllowedIps >>

\* A call of Config.getBackendSkipVerify.
getBackendSkipVerifyCall ==
    /\ configCall.pc # "constructed"
    /\ \E url \in BackendUrls :
         configCall' = [ pc |-> "returned", getter |-> "getBackendSkipVerify",
                         url |-> url, value |-> getBackendSkipVerify(url) ]
    /\ UNCHANGED << services, servicesStopping, servicesLock,
                    metricsRecordingsCurrent, metricsRecordingsTotal, jobs,
                    spc, tpc, exited, emitted, hist, request, validation,
                    environment, proxiesFix, protectedMetrics,
                    trustedProxies, configParser, backendIdsByBackendUrl,
                    signalingIdsBySignalingUrl, statsAllowedIps >>

\* A call of Config.getBackendMaximumMessageSize.
getBackendMaximumMessageSizeCall ==
    /\ configCall.pc # "constructed"
    /\ \E url \in BackendUrls :
         configCall' = [ pc |-> "returned", getter |-> "getBackendMaximumMessageSize",
                         url |-> url, value |-> getBackendMaximumMessageSize(url) ]
    /\ UNCHANGED << services, servicesStopping, servicesLock,
                    metricsRecordingsCurrent, metricsRecordingsTotal, jobs,
                    spc, tpc, exited, emitted, hist, request, validation,
                    environment, proxiesFix, protectedMetrics,
                    trustedProxies, configParser, backendIdsByBackendUrl,
                    signalingIdsBySignalingUrl, statsAllowedIps >>

\* A call of Config.getBackendVideoWidth.
getBackendVideoWidthCall ==
    /\ configCall.pc # "constructed"
    /\ \E url \in BackendUrls :
         configCall' = [ pc |-> "returned", getter |-> "getBackendVideoWidth",
                         url |-> url, value |-> getBackendVideoWidth(url) ]
    /\ UNCHANGED << services, servicesStopping, servicesLock,
                    metricsRecordingsCurrent, metricsRecordingsTotal, jobs,
                    spc, tpc, exited, emitted, hist, request, validation,
                    environment, proxiesFix, protectedMetrics,
                    trustedProxies, configParser, backendIdsByBackendUrl,
                    signalingIdsBySignalingUrl, statsAllowedIps >>

\* A call of Config.getBackendVideoHeight.
getBackendVideoHeightCall ==
    /\ configCall.pc # "constructed"
    /\ \E url \in BackendUrls :
         configCall' = [ pc |-> "returned", getter |-> "getBackendVideoHeight",
                         url |-> url, value |-> getBackendVideoHeight(url) ]
    /\ UNCHANGED << services, servicesStopping, servicesLock,
                    metricsRecordingsCurrent, metricsRecordingsTotal, jobs,
                    spc, tpc, exited, emitted, hist, request, validation,
                    environment, proxiesFix, protectedMetrics,
                    trustedProxies, configParser, backendIdsByBackendUrl,
                    signalingIdsBySignalingUrl, statsAllowedIps >>

\* A call of Config.getBackendDirectory.
getBackendDirectoryCall ==
    /\ configCall.pc # "constructed"
    /\ \E url \in BackendUrls :
         configCall' = [ pc |-> "returned", getter |-> "getBackendDirectory",
                         url |-> url, value |-> getBackendDirectory(url) ]
    /\ UNCHANGED << services, servicesStopping, servicesLock,
                    metricsRecordingsCurrent, metricsRecordingsTotal, jobs,
                    spc, tpc, exited, emitted, hist, request, validation,
                    environment, proxiesFix, protectedMetrics,
                    trustedProxies, configParser, backendIdsByBackendUrl,
                    signalingIdsBySignalingUrl, statsAllowedIps >>

\* A call of Config.getSignalingSecret.
getSignalingSecretCall ==
    /\ configCall.pc # "constructed"
    /\ \E url \in SignalingUrls :
         configCall' = [ pc |-> "returned", getter |-> "getSignalingSecret",
                         url |-> url, value |-> getSignalingSecret(url) ]
    /\ UNCHANGED << services, servicesStopping, servicesLock,
                    metricsRecordingsCurrent, metricsRecordingsTotal, jobs,
                    spc, tpc, exited, emitted, hist, request, validation,
                    environment, proxiesFix, protectedMetrics,
                    trustedProxies, configParser, backendIdsByBackendUrl,
                    signalingIdsBySignalingUrl, statsAllowedIps >>

ConfigNext ==
    \/ load
    \/ getBackendSecretCall
    \/ getBackendSkipVerifyCall
    \/ getBackendMaximumMessageSizeCall
    \/ getBackendVideoWidthCall
    \/ getBackendVideoHeightCall
    \/ getBackendDirectoryCall
    \/ getSignalingSecretCall

ConfigSpec == ConfigInit /\ [][ConfigNext]_vars

(***************************************************************************)
(* Vocabulary of the properties.                                           *)
(***************************************************************************)
Created == 1..Len(jobs)

\* The step just taken received a start (stop) request.
StartRequestStep == emitted'.type = "start" /\ emitted'.backend # ""
StopRequestStep == emitted'.type = "stop" /\ emitted'.backend # ""

\* The serviceId of the request received by the step just taken.
RequestServiceId == ServiceId(emitted'.backend, emitted'.token)

\* The threads of Service j have ended.
StartThreadEnded(j) == spc[j] \in {"done", "failed", "crashed"}
StopThreadEnded(j) == tpc[j] \in {"done", "crashed"}

\* service.start of Service j has raised.
StartHasFailed(j) == spc[j] \in {"fail_lock", "fail_dec", "failed", "crashed"}

\* service.stop of Service j has returned or raised.
StopHasCompleted(j) == tpc[j] \in {"fin_lock", "fin_dec", "done", "crashed"}

\* Service j is stored under its serviceId in one of the two maps.
Registered(j) ==
    \/ /\ JobServiceId(j) \in DOMAIN services
       /\ services[JobServiceId(j)] = j
    \/ /\ JobServiceId(j) \in DOMAIN servicesStopping
       /\ servicesStopping[JobServiceId(j)] = j

\* No other Service was ever constructed for the serviceId of Service j.
OnlyServiceOfItsId(j) ==
    \A k \in Created : JobServiceId(k) = JobServiceId(j) => k = j

(***************************************************************************)
(* C1.  No serviceId is in services and in servicesStopping at the same    *)
(* time.  The code violates it: startRecording only looks at services, so  *)
(* a start request received while the serviceId is in servicesStopping     *)
(* stores a second Service under it.                                       *)
(***************************************************************************)
C1_NoKeyInBothMaps == DOMAIN services \cap DOMAIN servicesStopping = {}

(***************************************************************************)
(* C2.  A start request for a serviceId that is in servicesStopping is     *)
(* answered 200 and constructs no Service, stores nothing in services and  *)
(* launches no start thread.  The code violates it (line 335 does not      *)
(* test servicesStopping).                                                 *)
(***************************************************************************)
C2_StartWhileStoppingIsNoOp ==
    [][ (StartRequestStep /\ RequestServiceId \in DOMAIN servicesStopping)
          => /\ emitted'.status = 200
             /\ UNCHANGED << services, servicesStopping, jobs, spc >> ]_vars

(***************************************************************************)
(* C3, as claimed.  A start request for a serviceId for which a Service    *)
(* was constructed, with no stop request for the serviceId since, is       *)
(* answered 200 and changes nothing.  It fails when the entry has been     *)
(* removed in between by the failure handler of the start thread.          *)
(***************************************************************************)
C3_RepeatedStartIsNoOp_Original ==
    [][ (StartRequestStep /\ hist.phase[RequestServiceId] # "clear")
          => /\ emitted'.status = 200
             /\ RequestServiceId \in DOMAIN services
             /\ UNCHANGED << services, servicesStopping, jobs, spc >> ]_vars

(***************************************************************************)
(* C3, amended.  A start request for a serviceId for which a Service was   *)
(* constructed, with no stop request for the serviceId and no removal of   *)
(* its entry by a failed start or by the atexit handler since, is answered *)
(* 200 and changes nothing: services still holds the one Service of the    *)
(* serviceId, no Service is constructed and no start thread launched.      *)
(***************************************************************************)
C3_RepeatedStartIsNoOp ==
    [][ (StartRequestStep /\ hist.phase[RequestServiceId] = "started")
          => /\ emitted'.status = 200
             /\ RequestServiceId \in DOMAIN services
             /\ UNCHANGED << services, servicesStopping, jobs, spc >> ]_vars

\* A start request has been answered as a repetition.
C3_Witness ==
    /\ emitted.log = "Trying to start recording again"
    /\ hist.phase[ServiceId(emitted.backend, emitted.token)] = "started"

(***************************************************************************)
(* C4.  Before the atexit handler runs, and while no thread is inside a    *)
(* lock-protected block, every Service whose start has not failed and      *)
(* whose stop has not completed is stored under its serviceId in services  *)
(* or in servicesStopping.  The code violates it: a Service accepted while *)
(* its serviceId is in servicesStopping (C2) and stopped in turn replaces  *)
(* the entry of the Service that is still stopping.                        *)
(***************************************************************************)
C4_NoOrphanedJob ==
    (~exited /\ servicesLock = NoThread)
      => \A j \in Created :
           (~StartHasFailed(j) /\ ~StopHasCompleted(j)) => Registered(j)

(***************************************************************************)
(* C5.  The gauge is decremented at most once for a Service.  The code     *)
(* violates it: the failure handler of the start thread of a Service that  *)
(* is being stopped finds the serviceId in services again (C2), pops that  *)
(* entry and decrements the gauge; the stop thread decrements it again.    *)
(***************************************************************************)
C5_AtMostOneDecrement == \A j \in Created : hist.decs[j] <= 1

(***************************************************************************)
(* C6.  Start/stop race: for a Service that is the only one constructed    *)
(* for its serviceId and whose stop request was accepted before its start  *)
(* thread ended, once its start thread and its stop thread have ended the  *)
(* serviceId is in neither map, and no exception has left either thread.   *)
(***************************************************************************)
C6_RaceEndsAbsent ==
    \A j \in Created :
        (/\ hist.raced[j]
         /\ OnlyServiceOfItsId(j)
         /\ StartThreadEnded(j)
         /\ StopThreadEnded(j))
          => /\ JobServiceId(j) \notin DOMAIN services
             /\ JobServiceId(j) \notin DOMAIN servicesStopping
             /\ spc[j] # "crashed"
             /\ tpc[j] # "crashed"

\* A race in which service.start raised has run to its end.
C6_Witness ==
    \E j \in Created :
        /\ hist.raced[j]
        /\ OnlyServiceOfItsId(j)
        /\ spc[j] = "failed"
        /\ tpc[j] = "done"

(***************************************************************************)
(* C7.  Under fair scheduling, with calls of service.stop that terminate,  *)
(* a serviceId that is in servicesStopping is eventually not in it.        *)
(***************************************************************************)
C7_StoppingIsEventuallyRemoved ==
    \A s \in ServiceIds :
        (s \in DOMAIN servicesStopping) ~> (s \notin DOMAIN servicesStopping)

\* A stop thread has ended after removing its serviceId from
\* servicesStopping.
C7_Witness ==
    \E j \in Created :
        /\ tpc[j] = "done"
        /\ JobServiceId(j) \notin DOMAIN servicesStopping

(***************************************************************************)
(* C8.  A stop request for a serviceId that is in neither map is answered  *)
(* 404, launches no stop thread and leaves both maps and the metrics as    *)
(* they are.                                                               *)
(***************************************************************************)
C8_StopUnknownIsNotFound ==
    [][ (/\ StopRequestStep
         /\ RequestServiceId \notin DOMAIN services
         /\ RequestServiceId \notin DOMAIN servicesStopping)
          => /\ emitted'.status = 404
             /\ UNCHANGED << services, servicesStopping, servicesLock, jobs,
                             metricsRecordingsCurrent, metricsRecordingsTotal,
                             spc, tpc >> ]_vars

\* A stop request has been answered 404.
C8_Witness ==
    /\ emitted.status = 404
    /\ emitted.type = "stop"
    /\ ServiceId(emitted.backend, emitted.token) \notin DOMAIN services
    /\ ServiceId(emitted.backend, emitted.token) \notin DOMAIN servicesStopping

(***************************************************************************)
(* C9.  A stop request for a serviceId that is not in services but is in   *)
(* servicesStopping is answered 200; it launches no stop thread (so        *)
(* service.stop is not called again) and leaves both maps and the metrics  *)
(* as they are.                                                            *)
(***************************************************************************)
C9_StopAgainIsNoOp ==
    [][ (/\ StopRequestStep
         /\ RequestServiceId \notin DOMAIN services
         /\ RequestServiceId \in DOMAIN servicesStopping)
          => /\ emitted'.status = 200
             /\ UNCHANGED << services, servicesStopping, servicesLock, jobs,
                             metricsRecordingsCurrent, metricsRecordingsTotal,
                             spc, tpc >> ]_vars

\* A stop request has been answered as a repetition.
C9_Witness ==
    /\ emitted.status = 200
    /\ emitted.log = "Trying to stop recording again"
    /\ ServiceId(emitted.backend, emitted.token) \notin DOMAIN services
    /\ ServiceId(emitted.backend, emitted.token) \in DOMAIN servicesStopping

(***************************************************************************)
(* C10.  An accepted stop request moves its Service from services to       *)
(* servicesStopping within one acquisition of the lock: from the removal   *)
(* on, the handler holds the lock and no other step reads or changes a map *)
(* until the same Service has been stored in servicesStopping under the    *)
(* serviceId it was removed from, which is when the lock is released.      *)
(***************************************************************************)
C10_MoveIsAtomic ==
    [][ \A j \in Jobs :
          \* the removal: the Service j stored under the requested serviceId
          /\ (tpc[j] # "moving" /\ tpc'[j] = "moving")
               => /\ StopRequestStep
                  /\ RequestServiceId = JobServiceId(j)
                  /\ services[RequestServiceId] = j
                  /\ RequestServiceId \notin DOMAIN services'
                  /\ servicesLock' = StopRequestThread(j)
          \* between the removal and the insertion
          /\ (tpc[j] = "moving" /\ tpc'[j] = "moving")
               => /\ servicesLock = StopRequestThread(j)
                  /\ UNCHANGED << services, servicesStopping, servicesLock >>
          \* the insertion
          /\ (tpc[j] = "moving" /\ tpc'[j] # "moving")
               => /\ servicesLock = StopRequestThread(j)
                  /\ servicesLock' = NoThread
                  /\ services' = services
                  /\ JobServiceId(j) \in DOMAIN servicesStopping'
                  /\ servicesStopping'[JobServiceId(j)] = j ]_vars

\* A Service has been moved, and another thread takes a step while the
\* handler of the stop request is between the removal and the insertion.
C10_Witness ==
    \E j \in Created :
        /\ tpc[j] = "moving"
        /\ servicesLock = StopRequestThread(j)
        /\ \E k \in Created : k # j /\ spc[k] = "starting"

(***************************************************************************)
(* Further vocabulary.                                                     *)
(***************************************************************************)
\* The step just taken is the lock-protected test of the failure handler of
\* the start thread of Service j (lines 367-377).
FailureHandlerStep(j) == spc[j] = "fail_lock" /\ spc'[j] # "fail_lock"

\* The step just taken is the gauge decrement of the failure handler of the
\* start thread of Service j (line 379).
FailureHandlerDecStep(j) == spc[j] = "fail_dec" /\ spc'[j] # "fail_dec"

\* A stop request was accepted for Service j.
StopAccepted(j) == tpc[j] # "none"

(***************************************************************************)
(* C11.  When service.start of a Service raises while its serviceId is in  *)
(* services, the failure handler removes the serviceId from services and   *)
(* decrements the gauge of the backend by one, and leaves the counter as   *)
(* it is; a stop request for the serviceId received next (no start request *)
(* for it in between) is answered 404.  The code violates the last part:   *)
(* the failed Service may have been accepted while an earlier Service of   *)
(* the serviceId was in servicesStopping (C2), and the stop request is     *)
(* then answered 200.                                                      *)
(***************************************************************************)
C11_FailedStartRemovesKey ==
    [][ /\ \A j \in Jobs :
             /\ (FailureHandlerStep(j) /\ JobServiceId(j) \in DOMAIN services)
                  => /\ JobServiceId(j) \notin DOMAIN services'
                     /\ spc'[j] = "fail_dec"
                     /\ UNCHANGED << servicesStopping, metricsRecordingsTotal >>
             /\ FailureHandlerDecStep(j)
                  => /\ metricsRecordingsCurrent' =
                          [ metricsRecordingsCurrent EXCEPT
                              ![jobs[j].backend] = @ - 1 ]
                     /\ UNCHANGED << services, servicesStopping,
                                     metricsRecordingsTotal >>
        /\ (StopRequestStep /\ hist.phase[RequestServiceId] = "removed")
             => emitted'.status = 404 ]_vars

(***************************************************************************)
(* C12.  When service.start of a Service raises after a stop request was   *)
(* accepted for the Service, or after the atexit handler has run, the      *)
(* failure handler changes neither map nor the gauge and does not go on to *)
(* the decrement.  The code violates it: the handler tests the serviceId,  *)
(* not the Service, and a later Service of the same serviceId may be in    *)
(* services by then (C2); the handler removes that entry and decrements.   *)
(***************************************************************************)
C12_FailureAfterStopChangesNothing ==
    [][ \A j \in Jobs :
          (FailureHandlerStep(j) /\ (StopAccepted(j) \/ exited))
            => /\ spc'[j] = "failed"
               /\ UNCHANGED << services, servicesStopping, servicesLock,
                               metricsRecordingsCurrent,
                               metricsRecordingsTotal >> ]_vars

(***************************************************************************)
(* C13.  The stop thread of a Service always finds its serviceId in        *)
(* servicesStopping: the error "Recording stopped when not in the list of  *)
(* stopping services" is never logged.  The code violates it: a Service    *)
(* accepted while its serviceId is in servicesStopping (C2) and stopped in *)
(* turn shares the entry with the Service that is still stopping; the stop *)
(* thread that finishes first removes the entry, the other finds none.     *)
(***************************************************************************)
C13_NeverHappensBranchUnreachable ==
    emitted.log # "Recording stopped when not in the list of stopping services"

(***************************************************************************)
(* C14.  An exception of service.start or service.stop does not leave the  *)
(* thread that made the call, and the request that launched the thread is  *)
(* answered 200: the step that accepts a start request answers 200, the    *)
(* handler of an accepted stop request answers 200 when it goes on, and a  *)
(* step of a start or stop thread answers no request.                      *)
(***************************************************************************)
C14_ExceptionsStayInBackground ==
    [][ /\ \A j \in Jobs : spc'[j] # "crashed" /\ tpc'[j] # "crashed"
        /\ jobs' # jobs => emitted'.status = 200
        /\ \A j \in Jobs :
             /\ (tpc[j] = "moving" /\ tpc'[j] # "moving")
                  => emitted'.status = 200
             /\ (spc[j] \notin {"none", "done", "failed"} /\ spc'[j] # spc[j])
                  => emitted'.status = 0
             /\ (tpc[j] \notin {"none", "moving", "done"} /\ tpc'[j] # tpc[j])
                  => emitted'.status = 0 ]_vars

\* service.stop of a Service has just raised, after service.start of the
\* same Service had raised: both threads went on, the log has the failure.
C14_Witness ==
    /\ emitted.log = "Failed to stop recording"
    /\ spc[emitted.service] = "failed"
    /\ tpc[emitted.service] = "fin_lock"

(***************************************************************************)
(* C15.  A thread that executes service.start or service.stop does not     *)
(* hold servicesLock, nor does the handler that launched it: whoever holds *)
(* the lock is inside one of the blocks that read and update the maps      *)
(* (stopRecording between its pop and its insert, the failure handler of   *)
(* the start thread, the end of the stop thread).                          *)
(***************************************************************************)
C15_LockNotHeldDuringStartStop ==
    \A j \in Jobs :
        /\ spc[j] = "starting" => servicesLock # StartThread(j)
        /\ tpc[j] = "stopping"
             => servicesLock \notin { StopThread(j), StopRequestThread(j) }
        /\ servicesLock = StopRequestThread(j) => tpc[j] = "moving"
        /\ servicesLock = StartThread(j) => spc[j] = "fail_dec"
        /\ servicesLock = StopThread(j) => tpc[j] = "fin_dec"

\* A request has just been handled, under the lock, while service.start of
\* one Service and service.stop of another were being executed.
C15_Witness ==
    /\ emitted.backend # ""
    /\ emitted.status # 0
    /\ \E j, k \in Created :
         /\ j # k
         /\ emitted.service \notin { j, k }
         /\ spc[j] = "starting"
         /\ tpc[k] = "stopping"

(***************************************************************************)
(* C16.  A thread that changes the gauge or the counter holds servicesLock *)
(* while it does.  The code violates it: the start thread increments both  *)
(* (lines 361-362) without taking the lock.                                *)
(***************************************************************************)
C16_MetricsUpdatedUnderLock ==
    [][ (\/ metricsRecordingsCurrent' # metricsRecordingsCurrent
         \/ metricsRecordingsTotal' # metricsRecordingsTotal)
          => \A j \in Jobs :
               /\ spc'[j] # spc[j] => servicesLock = StartThread(j)
               /\ tpc'[j] # tpc[j] => servicesLock = StopThread(j) ]_vars

(***************************************************************************)
(* C17.  The step that accepts a start request (it constructs a Service    *)
(* and stores it in services) increments the gauge and the counter of the  *)
(* backend by one; no other step increments either, in particular not a    *)
(* start request answered as a repetition.  The code violates it: the      *)
(* increments are made later, by the start thread (lines 361-362), so the  *)
(* serviceId is in services before the metrics count it.                   *)
(***************************************************************************)
C17_IncrementOnAcceptance ==
    [][ /\ jobs' # jobs
             => /\ metricsRecordingsCurrent' =
                     [ metricsRecordingsCurrent EXCEPT
                         ![emitted'.backend] = @ + 1 ]
                /\ metricsRecordingsTotal' =
                     [ metricsRecordingsTotal EXCEPT
                         ![emitted'.backend] = @ + 1 ]
        /\ jobs' = jobs
             => /\ metricsRecordingsTotal' = metricsRecordingsTotal
                /\ \A b \in Backends :
                     metricsRecordingsCurrent'[b]
                       <= metricsRecordingsCurrent[b] ]_vars

(***************************************************************************)
(* C18.  The atexit handler empties services and leaves servicesStopping   *)
(* as it is; after it has run, an entry of servicesStopping is removed     *)
(* only by the stop thread of the Service stored in the entry.  The code   *)
(* violates the last part: when two Services of one serviceId are being    *)
(* stopped (C2) the entry holds the second, and the stop thread of the     *)
(* first removes it.                                                       *)
(***************************************************************************)
C18_DrainLeavesStopping ==
    [][ /\ (~exited /\ exited')
             => /\ services' = EmptyDict
                /\ UNCHANGED << servicesStopping, metricsRecordingsCurrent,
                                metricsRecordingsTotal >>
        /\ exited
             => \A s \in DOMAIN servicesStopping :
                  s \notin DOMAIN servicesStopping'
                    => /\ tpc[servicesStopping[s]] = "fin_lock"
                       /\ tpc'[servicesStopping[s]] = "fin_dec" ]_vars

(***************************************************************************)
(* The authentication gates, as the specification of the server words      *)
(* them, for a request r.                                                  *)
(***************************************************************************)
\* The request lacks one of the three Talk-Recording headers.
LacksHeader(r) == \E name \in HeaderNames : name \notin DOMAIN r.headers

\* The request names a backend with no configured secret, or an empty one.
NamesBackendWithoutSecret(r) ==
    /\ "Talk-Recording-Backend" \in DOMAIN r.headers
    /\ getBackendSecret(r.headers["Talk-Recording-Backend"]) \in { None, "" }

\* The request declares no body length, a zero or an oversized one.
DeclaresBadLength(r) ==
    \/ r.content_length = NoContentLength
    \/ r.content_length = 0
    \/ /\ "Talk-Recording-Backend" \in DOMAIN r.headers
       /\ r.content_length
            > getBackendMaximumMessageSize(r.headers["Talk-Recording-Backend"])

\* The checksum of the request is not the HMAC of its random and body under
\* the secret of its backend.
ChecksumMismatch(r) ==
    /\ ~LacksHeader(r)
    /\ r.headers["Talk-Recording-Checksum"]
         # calculateChecksum(
               getBackendSecret(r.headers["Talk-Recording-Backend"]),
               r.headers["Talk-Recording-Random"], r.body)

\* The step just taken is a step of the handler of the request.
RequestHandlerStep ==
    \/ validation' # validation
    \/ emitted'.status # 0 /\ emitted'.service = 0
    \/ StartRequestStep
    \/ StopRequestStep

\* The state of the registry and the positions of the threads that call
\* service.start and service.stop.
registry == << services, servicesStopping, servicesLock,
               metricsRecordingsCurrent, metricsRecordingsTotal, jobs, spc,
               tpc >>

(***************************************************************************)
(* C19.  A request that lacks one of the three headers, names a backend    *)
(* without secret or with an empty one, declares no, a zero or an          *)
(* oversized length, or has a checksum that does not match, is answered    *)
(* with an error by _validateRequest: its handler does not get to          *)
(* startRecording or stopRecording, and its steps leave both maps, the     *)
(* lock, the metrics and the threads as they are.                          *)
(***************************************************************************)
C19_RejectedRequestLeavesRegistry ==
    [][ (\/ LacksHeader(request)
         \/ NamesBackendWithoutSecret(request)
         \/ DeclaresBadLength(request)
         \/ ChecksumMismatch(request))
          => /\ validation'.status # 200
             /\ ~StartRequestStep
             /\ ~StopRequestStep
             /\ RequestHandlerStep
                  => /\ emitted'.status \in { 400, 403, 500 }
                     /\ UNCHANGED registry ]_vars

\* A request signed with the empty secret of a backend that is configured
\* with one has been rejected while a recording is running.
C19_Witness ==
    /\ request # NoRequest
    /\ ~LacksHeader(request)
    /\ ~DeclaresBadLength(request)
    /\ ~ChecksumMismatch(request)
    /\ NamesBackendWithoutSecret(request)
    /\ validation.status = 403
    /\ emitted.status = 403
    /\ services # EmptyDict

(***************************************************************************)
(* C20.  The gates in their order: backend header, backend secret, random  *)
(* header, checksum header, body size, checksum match, JSON parse.  The    *)
(* request is answered with the error of the first gate in this order that *)
(* it fails (403 for the header, secret and checksum gates, 400 for the    *)
(* size gate, an error for the JSON gate), is accepted when it fails none, *)
(* and its body is read only when it passes the first five.  The code      *)
(* violates it for a checksum that is not ASCII: hmac.compare_digest       *)
(* raises TypeError and the request is answered 500, not 403.              *)
(***************************************************************************)
FirstFailingGate(r) ==
    CASE "Talk-Recording-Backend" \notin DOMAIN r.headers -> 1
      [] NamesBackendWithoutSecret(r) -> 2
      [] "Talk-Recording-Random" \notin DOMAIN r.headers -> 3
      [] "Talk-Recording-Checksum" \notin DOMAIN r.headers -> 4
      [] DeclaresBadLength(r) -> 5
      [] ChecksumMismatch(r) -> 6
      [] r.body \notin DOMAIN jsonTable -> 7
      [] OTHER -> 0

GateLog ==
    << "Missing Talk-Recording-Backend header",
       "No secret configured for backend",
       "Missing Talk-Recording-Random header",
       "Missing Talk-Recording-Checksum header",
       "Message size above limit",
       "Checksum verification failed",
       "JSONDecodeError" >>

C20_GatesInOrder ==
    validation # NotValidated
      => LET gate == FirstFailingGate(request) IN
         /\ gate = 0 <=> validation.status = 200
         /\ gate \in { 1, 2, 3, 4, 6 } => validation.status = 403
         /\ gate = 5 => validation.status = 400
         /\ gate = 7 => validation.status \notin { 0, 200 }
         /\ gate # 0 => validation.log = GateLog[gate]
         /\ validation.bodyRead <=> gate \notin 1..5

(***************************************************************************)
(* C21.  The size gate, for a request with the three headers and a backend *)
(* with a secret: a declared length L passes iff 1 <= L <= the maximum     *)
(* message size of the backend (1024 unless configured); a request whose   *)
(* length does not pass is rejected with 400 by the size gate, a missing   *)
(* and a zero length included, and one whose length passes is not.         *)
(***************************************************************************)
\* The request reaches the size gate.
ReachesSizeGate(r) == ~LacksHeader(r) /\ ~NamesBackendWithoutSecret(r)

\* The declared length of the request is within the bounds of its backend.
LengthWithinBounds(r) ==
    /\ r.content_length # NoContentLength
    /\ 1 <= r.content_length
    /\ r.content_length
         <= getBackendMaximumMessageSize(r.headers["Talk-Recording-Backend"])

C21_SizeGateBoundary ==
    validation # NotValidated /\ ReachesSizeGate(request)
      => IF LengthWithinBounds(request)
         THEN /\ validation.log # "Message size above limit"
              /\ validation.bodyRead
         ELSE /\ validation.status = 400
              /\ validation.log = "Message size above limit"
              /\ ~validation.bodyRead

\* A request of exactly the configured maximum of its backend was accepted.
C21_Witness ==
    /\ request # NoRequest
    /\ ReachesSizeGate(request)
    /\ request.headers["Talk-Recording-Backend"] = "b"
    /\ request.content_length = 512
    /\ validation.status = 200

(***************************************************************************)
(* C22.  The checksum gate.  A request is accepted only if its checksum is *)
(* the hexadecimal HMAC-SHA256, keyed by the secret of its backend, of its *)
(* random followed by its body; and for an accepted request, every request *)
(* that differs from it only in the body, or only in the random, and       *)
(* carries the same checksum, is rejected with 403 by the checksum gate.   *)
(***************************************************************************)
\* The requests that differ from r only in the body.
WithOtherBody(r) ==
    { [ r EXCEPT !.body = body ] : body \in Bodies \ { r.body } }

\* The requests that differ from r only in the Talk-Recording-Random header.
WithOtherRandom(r) ==
    { [ r EXCEPT !.headers["Talk-Recording-Random"] = random ] :
        random \in RequestRandoms \ { r.headers["Talk-Recording-Random"] } }

C22_ChecksumGate ==
    validation.status = 200
      => /\ request.headers["Talk-Recording-Checksum"]
              = calculateChecksum(
                    getBackendSecret(
                        request.headers["Talk-Recording-Backend"]),
                    request.headers["Talk-Recording-Random"], request.body)
         /\ \A r \in WithOtherBody(request) \cup WithOtherRandom(request) :
              /\ validateRequest(r).status = 403
              /\ validateRequest(r).log = "Checksum verification failed"

\* A request was accepted and its handler has answered, and there are
\* requests with its checksum and another body, and with another random.
C22_Witness ==
    /\ validation.status = 200
    /\ emitted.status \in { 200, 400 }
    /\ WithOtherBody(request) # {}
    /\ WithOtherRandom(request) # {}
    /\ \E r \in WithOtherRandom(request) : validateRequest(r).bodyRead

(***************************************************************************)
(* C23.  A request that passes the header, secret, size and checksum gates *)
(* and whose body is not valid JSON is rejected with 400, and the steps of *)
(* its handler leave the registry as it is.  The code violates it:         *)
(* json.loads raises JSONDecodeError, which is answered 500.               *)
(***************************************************************************)
\* The request passes every gate up to the checksum and its body is not JSON.
AuthenticatedNotJson(r) == FirstFailingGate(r) = 7

C23_InvalidJsonIsBadRequest ==
    [][ AuthenticatedNotJson(request) /\ RequestHandlerStep
          => /\ validation'.status = 400
             /\ emitted'.status = 400
             /\ UNCHANGED registry ]_vars

(***************************************************************************)
(* C24.  An authenticated request whose JSON body lacks 'type', has a      *)
(* 'type' other than 'start' and 'stop', is a start that lacks start,      *)
(* start.owner, start.actor, start.actor.type or start.actor.id, or is a   *)
(* stop that lacks stop, is rejected with 400 before the lock is taken:    *)
(* the steps of its handler leave the registry as it is.  The code         *)
(* violates it for a body in which the value to look into is not an        *)
(* object: the test raises TypeError and the request is answered 500.      *)
(***************************************************************************)
\* The JSON value is an object with the member.
HasMember(value, key) == value # jsonNumber /\ key \in DOMAIN value

\* The body lacks a field that its type requires, or has no known type.
LacksRequiredField(data) ==
    \/ ~HasMember(data, "type")
    \/ data["type"] \notin { "start", "stop" }
    \/ /\ data["type"] = "start"
       /\ \/ ~HasMember(data, "start")
          \/ ~HasMember(data["start"], "owner")
          \/ ~HasMember(data["start"], "actor")
          \/ ~HasMember(data["start"]["actor"], "type")
          \/ ~HasMember(data["start"]["actor"], "id")
    \/ /\ data["type"] = "stop"
       /\ ~HasMember(data, "stop")

C24_MissingFieldIsBadRequest ==
    [][ (/\ validation.status = 200
         /\ LacksRequiredField(validation.data)
         /\ RequestHandlerStep)
          => /\ emitted'.status = 400
             /\ UNCHANGED registry ]_vars

(***************************************************************************)
(* The address resolution, as the documentation of getRemoteAddress and    *)
(* the specification of the server word it.                                *)
(***************************************************************************)
\* The IP address that a peer address or an entry of X-Forwarded-For
\* denotes: spaces around it, brackets and a trailing port do not count;
\* NotAnAddress for a text that denotes none.
Denotes(text) ==
    CASE text \in { << "1", "0", ".", "0", ".", "0", ".", "1" >>,
                    << "1", "0", ".", "0", ".", "0", ".", "1", ":", "8", "0" >> }
           -> IPv4Address(10, 0, 0, 1)
      [] text = << "1", "0", ".", "0", ".", "0", ".", "2" >> -> IPv4Address(10, 0, 0, 2)
      [] text \in { << "4", ".", "4", ".", "4", ".", "4" >>,
                    << "4", ".", "4", ".", "4", ".", "4", ":", "8", "0" >> }
           -> IPv4Address(4, 4, 4, 4)
      [] text \in { << "a", ":", ":", "1" >>,
                    << " ", "[", "a", ":", ":", "1", "]", ":", "8", "0" >>,
                    << "[", "a", ":", "0", ":", ":", "1", "]", ":", "8", "0" >> }
           -> IPv6Address(10, 1)
      [] text \in { << "b", ":", ":", "1" >>,
                    << "b", ":", "0", ":", ":", "1" >> }
           -> IPv6Address(11, 1)
      [] OTHER -> NotAnAddress

\* The text denotes an address of a trusted proxy / of no trusted proxy.
IsTrusted(text) ==
    /\ Denotes(text) # NotAnAddress
    /\ \E i \in DOMAIN trustedProxies :
         inNetwork(Denotes(text), trustedProxies[i])

IsUntrusted(text) ==
    /\ Denotes(text) # NotAnAddress
    /\ \A i \in DOMAIN trustedProxies :
         ~inNetwork(Denotes(text), trustedProxies[i])

\* The request that the middleware has passed on had REMOTE_ADDR set / had
\* an X-Forwarded-For header.
PassedOn == proxiesFix.pc = "app"

HadPeer == "REMOTE_ADDR" \in DOMAIN proxiesFix.received

HadHeader == "HTTP_X_FORWARDED_FOR" \in DOMAIN proxiesFix.received

\* The peer address as received.
Peer == proxiesFix.received["REMOTE_ADDR"]

\* The entries of the X-Forwarded-For header as received, the right-most
\* first.
Chain == reverse(split(proxiesFix.received["HTTP_X_FORWARDED_FOR"], ","))

\* The address that the wrapped application finds in REMOTE_ADDR.
Resolved == environment["REMOTE_ADDR"]

(***************************************************************************)
(* C26.  The header of an untrusted peer is ignored: when the address of   *)
(* the peer is in no trusted network, the resolved address is REMOTE_ADDR  *)
(* exactly as received, port and brackets included, whether there is no    *)
(* X-Forwarded-For header or one with any content.                         *)
(***************************************************************************)
C26_UntrustedPeerKeepsAddress ==
    PassedOn /\ HadPeer /\ IsUntrusted(Peer)
      => /\ Resolved = Peer
         /\ proxiesFix.log = ""

\* An untrusted peer with brackets and port sent a header that names an
\* address that is no trusted proxy either.
C26_Witness ==
    /\ PassedOn /\ HadPeer /\ HadHeader
    /\ IsUntrusted(Peer)
    /\ Peer = << "[", "a", ":", "0", ":", ":", "1", "]", ":", "8", "0" >>
    /\ trustedProxies # << >>
    /\ IsUntrusted(Chain[1])
    /\ Denotes(Chain[1]) # Denotes(Peer)
    /\ Resolved = Peer

(***************************************************************************)
(* C27.  When the peer is trusted and, from right to left, the entries of  *)
(* the header before an entry E are addresses of trusted proxies and E is  *)
(* an address that is not, the resolved address is E, without port and in  *)
(* compressed form, whatever lies to the left of E.                        *)
(***************************************************************************)
C27_FirstUntrustedEntry ==
    PassedOn /\ HadPeer /\ HadHeader /\ IsTrusted(Peer)
      => \A k \in DOMAIN Chain :
           (/\ \A j \in 1..(k - 1) : IsTrusted(Chain[j])
            /\ IsUntrusted(Chain[k]))
             => Resolved = compressed(Denotes(Chain[k]))

\* The second entry from the right, with a port, was resolved; the entry to
\* its left is no address.
C27_Witness ==
    /\ PassedOn /\ HadPeer /\ HadHeader
    /\ IsTrusted(Peer)
    /\ Len(Chain) = 3
    /\ IsTrusted(Chain[1])
    /\ Chain[2] = << "4", ".", "4", ".", "4", ".", "4", ":", "8", "0" >>
    /\ IsUntrusted(Chain[2])
    /\ Denotes(Chain[3]) = NotAnAddress
    /\ Resolved = << "4", ".", "4", ".", "4", ".", "4" >>

(***************************************************************************)
(* C28.  When the peer is trusted and every entry of the header is an      *)
(* address of a trusted proxy, the resolved address is the left-most       *)
(* entry, without port and in compressed form.                             *)
(***************************************************************************)
C28_AllTrustedGivesLeftMost ==
    PassedOn /\ HadPeer /\ HadHeader /\ IsTrusted(Peer)
      => ((\A k \in DOMAIN Chain : IsTrusted(Chain[k]))
            => Resolved = compressed(Denotes(Chain[Len(Chain)])))

\* A header of three trusted entries, the left-most in brackets and with a
\* port and another address than the entries after it.
C28_Witness ==
    /\ PassedOn /\ HadPeer /\ HadHeader
    /\ IsTrusted(Peer)
    /\ Len(Chain) = 3
    /\ \A k \in DOMAIN Chain : IsTrusted(Chain[k])
    /\ Chain[3] = << " ", "[", "a", ":", ":", "1", "]", ":", "8", "0" >>
    /\ Denotes(Chain[2]) # Denotes(Chain[3])
    /\ Denotes(Peer) # Denotes(Chain[3])
    /\ Resolved = << "a", ":", ":", "1" >>

(***************************************************************************)
(* C29.  An entry that is no address truncates the walk: when the peer is  *)
(* trusted and the entries to the right of such an entry are addresses of  *)
(* trusted proxies, the resolved address is the last trusted address       *)
(* before it, the entry at its right or, if there is none, the address of  *)
(* the peer (without port, in compressed form); nothing to its left        *)
(* changes the result.                                                     *)
(***************************************************************************)
C29_InvalidEntryTruncates ==
    PassedOn /\ HadPeer /\ HadHeader /\ IsTrusted(Peer)
      => \A k \in DOMAIN Chain :
           (/\ \A j \in 1..(k - 1) : IsTrusted(Chain[j])
            /\ Denotes(Chain[k]) = NotAnAddress)
             => Resolved = compressed(Denotes(IF k = 1 THEN Peer
                                              ELSE Chain[k - 1]))

\* The walk ended at the first entry from the right, an empty one, with an
\* untrusted address to its left; the peer address was received in
\* brackets, with a port and not in compressed form.
C29_Witness ==
    /\ PassedOn /\ HadPeer /\ HadHeader
    /\ IsTrusted(Peer)
    /\ Peer = << "[", "a", ":", "0", ":", ":", "1", "]", ":", "8", "0" >>
    /\ Len(Chain) = 2
    /\ Chain[1] = << >>
    /\ IsUntrusted(Chain[2])
    /\ Resolved = << "a", ":", ":", "1" >>

(***************************************************************************)
(* C30.  getRemoteAddress raises ValueError when REMOTE_ADDR is absent or  *)
(* empty; the middleware logs it, leaves the environment as it received    *)
(* it and calls the wrapped application.                                   *)
(***************************************************************************)
C30_NoPeerAddress ==
    [][ (/\ proxiesFix.pc = "call"
         /\ \/ "REMOTE_ADDR" \notin DOMAIN environment
            \/ environment["REMOTE_ADDR"] = << >>)
          => /\ getRemoteAddress(environment, trustedProxies) = ValueError
             /\ environment' = environment
             /\ proxiesFix'.pc = "app"
             /\ proxiesFix'.log
                  = "The remote address of the request could not be got" ]_vars

\* A request with an empty REMOTE_ADDR and an X-Forwarded-For header that
\* names an address was passed on as it was.
C30_Witness ==
    /\ PassedOn /\ HadPeer /\ HadHeader
    /\ Peer = << >>
    /\ Denotes(Chain[1]) # NotAnAddress
    /\ environment = proxiesFix.received
    /\ proxiesFix.log # ""

(***************************************************************************)
(* C31.  The metrics endpoint serves the metrics only when the resolved    *)
(* address of the client, REMOTE_ADDR as TrustedProxiesFix leaves it, is   *)
(* in a network of the stats-allowed set; every other client is answered   *)
(* 403 with an empty body, and the metrics application is not invoked.     *)
(***************************************************************************)
\* The resolved address is in one of the allowed networks.
IsAllowed ==
    /\ "REMOTE_ADDR" \in DOMAIN environment
    /\ Denotes(Resolved) # NotAnAddress
    /\ \E i \in DOMAIN statsAllowedIps :
         inNetwork(Denotes(Resolved), statsAllowedIps[i])

C31_MetricsOnlyForAllowed ==
    protectedMetrics.pc = "done" /\ ~IsAllowed
    => /\ protectedMetrics.status = 403
       /\ protectedMetrics.body = ""
       /\ ~protectedMetrics.metricsCalled

(***************************************************************************)
(* The configuration, as the documentation of the Config words it.         *)
(***************************************************************************)
\* The Config has loaded its file.
IsLoaded == configCall.pc # "constructed"

\* The entry of a list, without the spaces around it, is an IP network.
IsNetwork(entry) == ip_network(strip(entry)) # NotANetwork

\* The list of networks holds the entries that are IP networks, and only
\* them, in the order of the entries.
KeepsNetworksOf(networks, entries) ==
    LET kept == { i \in DOMAIN entries : IsNetwork(entries[i]) }
        rank(i) == Cardinality({ k \in kept : k <= i })
    IN  /\ Len(networks) = Cardinality(kept)
        /\ \A i \in kept : networks[rank(i)] = ip_network(strip(entries[i]))

(***************************************************************************)
(* C32.  Loading the configuration keeps, in their configured order,       *)
(* exactly the comma-separated entries of 'trustedproxies' and of          *)
(* 'allowed_ips' that are IP networks, and drops every other entry; an     *)
(* absent or empty 'trustedproxies' gives the empty list, an absent        *)
(* 'allowed_ips' gives [127.0.0.1/32], an empty 'allowed_ips' the empty    *)
(* list.                                                                   *)
(***************************************************************************)
C32_LoadKeepsNetworks ==
    IsLoaded
    => /\ IF hasOption(configParser, "app", "trustedproxies")
          THEN /\ KeepsNetworksOf(
                      trustedProxies,
                      split(configParser["app"]["trustedproxies"], ","))
               /\ configParser["app"]["trustedproxies"] = << >>
                  => trustedProxies = << >>
          ELSE trustedProxies = << >>
       /\ IF hasOption(configParser, "stats", "allowed_ips")
          THEN /\ KeepsNetworksOf(
                      statsAllowedIps,
                      split(configParser["stats"]["allowed_ips"], ","))
               /\ configParser["stats"]["allowed_ips"] = << >>
                  => statsAllowedIps = << >>
          ELSE statsAllowedIps
                   = << Network(IPv4Address(127, 0, 0, 1), 32) >>

\* A file with an entry that is no network before two that are, and
\* without 'allowed_ips', has been loaded.
C32_Witness ==
    /\ IsLoaded
    /\ hasOption(configParser, "app", "trustedproxies")
    /\ configParser["app"]["trustedproxies"]
         = << "x", ",", " ", "1", "0", ".", "0", ".", "0", ".", "0", "/", "8", " ", ",", "a", ":", ":", "/", "1", "6" >>
    /\ trustedProxies = << Network(IPv4Address(10, 0, 0, 0), 8),
                           Network(IPv6Address(10, 0), 16) >>
    /\ ~hasOption(configParser, "stats", "allowed_ips")
    /\ Len(statsAllowedIps) = 1

\* The sections that 'backends' lists.
ListedBackends ==
    IF hasOption(configParser, "backend", "backends")
    THEN { sectionIds(configParser["backend"]["backends"])[i] :
             i \in DOMAIN sectionIds(configParser["backend"]["backends"]) }
    ELSE {}

\* The configured backends: the listed sections with a url and a secret.
ConfiguredBackends ==
    { id \in ListedBackends : /\ "url" \in DOMAIN configParser[id]
                              /\ "secret" \in DOMAIN configParser[id] }

\* The configured backends whose url is the URL, trailing slashes apart.
BackendsOf(url) ==
    { id \in ConfiguredBackends :
        rstripSlash(configParser[id]["url"]) = rstripSlash(url) }

\* The file sets allowall to 'true'.
AllowsAll ==
    /\ hasOption(configParser, "backend", "allowall")
    /\ configParser["backend"]["allowall"] = "true"

\* The method that was called last, and the URL it was called with.
Called(getter) == configCall.pc = "returned" /\ configCall.getter = getter

CalledWith(getter, url) == Called(getter) /\ configCall.url = url

ConfiguredSignalings ==
    IF hasOption(configParser, "signaling", "signalings")
    THEN { id \in { sectionIds(configParser["signaling"]["signalings"])[i] :
                      i \in DOMAIN sectionIds(
                                      configParser["signaling"]["signalings"]) } :
             /\ "url" \in DOMAIN configParser[id]
             /\ "internalsecret" \in DOMAIN configParser[id] }
    ELSE {}

\* The value that a key resolves to for a URL: the value of the section,
\* among the given ones, whose url is the URL (trailing slashes apart) when
\* it is not empty, else the value of the global section, else None.
ResolvesTo(sections, global, key, url) ==
    LET own == { id \in sections :
                   /\ rstripSlash(configParser[id]["url"]) = rstripSlash(url)
                   /\ key \in DOMAIN configParser[id]
                   /\ configParser[id][key] # "" }
    IN  IF own # {} THEN configParser[CHOOSE id \in own : TRUE][key]
        ELSE IF hasOption(configParser, global, key)
        THEN configParser[global][key]
        ELSE None

\* The value that a setting resolves to for the URL of the last call.
Setting(key) ==
    ResolvesTo(ConfiguredBackends, "backend", key, configCall.url)

IsOfRequestedPair(j) ==
    /\ jobs[j].backend = emitted.backend
    /\ jobs[j].token = emitted.token

C35_PairsShareNoEntry ==
    /\ emitted.log = "Trying to start recording again"
       => IsOfRequestedPair(
              services[ServiceId(emitted.backend, emitted.token)])
    /\ emitted.type = "stop" /\ emitted.backend # "" /\ emitted.service # 0
       => IsOfRequestedPair(emitted.service)

\* The step just taken is the lock-protected test of the completion
\* handler of the stop thread of Service j (lines 454-460).
CompletionHandlerStep(j) == tpc[j] = "fin_lock" /\ tpc'[j] # "fin_lock"

(***************************************************************************)
(* C36.  A background handler only removes the entry of its own Service:   *)
(* the failure handler of the start thread of a Service never removes from *)
(* services an entry that holds another Service, registered later under    *)
(* the same serviceId, and the completion handler of its stop thread never *)
(* removes from servicesStopping an entry that holds another Service.      *)
(***************************************************************************)
C36_HandlerRemovesOwnEntry ==
    [][ \A j \in Jobs :
          /\ (FailureHandlerStep(j) /\ services' # services)
             => services[JobServiceId(j)] = j
          /\ (CompletionHandlerStep(j)
                /\ servicesStopping' # servicesStopping)
             => servicesStopping[JobServiceId(j)] = j ]_vars

(***************************************************************************)
(* C37.  The gauge of the current recordings of a backend is never         *)
(* negative, whatever the interleaving of start requests, stop requests    *)
(* and the start and stop threads.                                         *)
(***************************************************************************)
C37_GaugeNeverNegative ==
    \A b \in DOMAIN metricsRecordingsCurrent :
        metricsRecordingsCurrent[b] >= 0

\* No start thread and no stop thread is running, and no handler of a stop
\* request is inside its lock-protected block.
NoTaskInFlight ==
    \A j \in Jobs : /\ spc[j] \in { "none", "done", "failed", "crashed" }
                    /\ tpc[j] \in { "none", "done", "crashed" }

\* The number of entries of the map that hold a Service of the backend.
HeldIn(map, b) ==
    Cardinality({ serviceId \in DOMAIN map : jobs[map[serviceId]].backend = b })

\* The number of start requests accepted for the backend: each constructs
\* a Service.
AcceptedStarts(b) == Cardinality({ j \in Created : jobs[j].backend = b })

(***************************************************************************)
(* C38.  In every state before the atexit handler has run in which no      *)
(* start or stop thread is in flight, the gauge of each backend is the     *)
(* number of its Services held in services and in servicesStopping, and    *)
(* the counter is the number of start requests accepted for the backend.   *)
(***************************************************************************)
C38_MetricsMatchRegistryWhenQuiet ==
    ~exited /\ NoTaskInFlight
    => \A b \in DOMAIN metricsRecordingsCurrent :
         /\ metricsRecordingsCurrent[b]
              = HeldIn(services, b) + HeldIn(servicesStopping, b)
         /\ metricsRecordingsTotal[b] = AcceptedStarts(b)

\* The step just taken launches the start thread of Service j, which
\* calls service.start, or the stop thread of Service j, which calls
\* service.stop.
StartInvokedStep(j) == spc[j] # "inc" /\ spc'[j] = "inc"

StopInvokedStep(j) == tpc[j] # "stopping" /\ tpc'[j] = "stopping"

(***************************************************************************)
(* C39.  Nothing is retried: the start of a Service is invoked at most     *)
(* once and its stop at most once, whatever start and stop requests arrive *)
(* and whether start or stop fails.  A start thread is launched for a      *)
(* Service only when it is constructed, a stop thread only by the handler  *)
(* that has taken the Service out of services, and no Service gets back to *)
(* where a thread is launched for it.                                      *)
(***************************************************************************)
C39_StartAndStopInvokedOnce ==
    [][ \A j \in Jobs :
          /\ StartInvokedStep(j) => spc[j] = "none" /\ j = Len(jobs) + 1
          /\ spc[j] # "none" => spc'[j] # "none"
          /\ StopInvokedStep(j) => tpc[j] = "moving"
          /\ (tpc[j] # "moving" /\ tpc'[j] = "moving") => tpc[j] = "none"
          /\ tpc[j] # "none" => tpc'[j] # "none" ]_vars

\* The start of a Service has failed and its entry was removed; the
\* recording was started anew by a second request, as another Service,
\* and stopped, with service.stop raising.
C39_Witness ==
    \E j, k \in Created :
        /\ j # k
        /\ JobServiceId(j) = JobServiceId(k)
        /\ spc[j] = "failed" /\ tpc[j] = "none"
        /\ spc[k] = "done" /\ tpc[k] = "done"
        /\ emitted = Nothing

\* The start thread or the stop thread of Service j waits for servicesLock.
WaitsForLock(j) == spc[j] = "fail_lock" \/ tpc[j] = "fin_lock"

(***************************************************************************)
(* C40.  servicesLock is released on every way out of every block that     *)
(* takes it, so the registry cannot deadlock: under fair scheduling, again *)
(* and again the lock is free, where the handler of a request can take it, *)
(* and no thread waits for it.  A thread leaves the position in which it   *)
(* waits only by the step that takes the lock, so a lock that is held is   *)
(* eventually released and a thread that waits for it eventually gets it.  *)
(***************************************************************************)
C40_LockIsReleasedAndAcquired ==
    []<>(/\ servicesLock = NoThread
         /\ \A j \in Jobs : ~WaitsForLock(j))

\* The failure handler of a start thread has just left its block by the
\* early return, the lock is free, and the stop thread of the same Service
\* waits for it.
C40_Witness ==
    \E j \in Created :
        /\ emitted = Logged("Recording stopped before starting", j)
        /\ spc[j] = "failed"
        /\ tpc[j] = "fin_lock"
        /\ servicesLock = NoThread

====
